---- MODULE Spec2Model ----
(***************************************************************************)
(* A model of lobster's task provisioning core: TaskProvider               *)
(* (lobster/core/source.py) driving a UnitStore, task handlers, the task   *)
(* directories of the working directory and the monitoring sink.           *)
(*                                                                         *)
(* TaskProvider is translated from source.py.  UnitStore, TaskHandler and  *)
(* the util directory helpers are not part of the source tree at hand;     *)
(* their operations are modelled from the written specification and are    *)
(* marked "store contract" / "handler contract" / "util contract" below.   *)
(***************************************************************************)
EXTENDS Integers, Sequences, FiniteSets, TLC

VARIABLES
  config,    \* the configuration: workflows, categories, advanced options
  store,     \* UnitStore: [units, tasks]
  dirs,      \* task directories: set of <<task id, bucket>>
  handlers,  \* TaskProvider.__taskhandlers: ids with a live handler
  dash,      \* monitoring sink: task id -> sequence of reported states
  pc,        \* where the controller is: idle, inside release, or down
  rel,       \* the locals of a release call in progress
  ret,       \* what the last obtain call did (observation of the call)
  quiet,     \* TRUE after a restart until the next obtain or release
  crashes,   \* how often the controller process has stopped while at work
  status,    \* the checkpoints in the working directory: set of keys
  start      \* the locals of a start-up (__init__) in progress

vars == <<config, store, dirs, handlers, dash, pc, rel, ret, quiet, crashes,
          status, start>>

-----------------------------------------------------------------------------
(* Bounds of the model *)

\* units of the root workflow
NumUnits == 3
\* task ids the store hands out before obtain stops being called
MaxTasks == 4
\* tasks handed to one release call
MaxBatch == 2
\* failures of a unit before it is paused (advanced option)
RetryCap == 1
\* stops of the controller process while it is at work (a process that has
\* done nothing since its start-up may always stop)
MaxCrashes == 1

-----------------------------------------------------------------------------
(* Arithmetic helpers *)

Max(a, b) == IF a >= b THEN a ELSE b

Min(a, b) == IF a <= b THEN a ELSE b

\* math.ceil(a / float(b)) for b > 0 and any integer a
CeilDiv(a, b) == -((-a) \div b)

SeqToSet(s) == {s[i] : i \in 1..Len(s)}

\* Op applied to the value of v, v evaluated once
With(v, Op(_)) == CHOOSE r \in {Op(x) : x \in {v}} : TRUE

RECURSIVE SetToSeq(_)
\* the elements of a finite set of integers in ascending order
SetToSeq(S) ==
  IF S = {} THEN <<>>
  ELSE LET m == CHOOSE x \in S : \A y \in S : x <= y
       IN <<m>> \o SetToSeq(S \ {m})

RECURSIVE SumOver(_, _)
SumOver(f, S) ==
  IF S = {} THEN 0
  ELSE LET x == CHOOSE y \in S : TRUE
       IN f[x] + SumOver(f, S \ {x})

-----------------------------------------------------------------------------
(* Configuration *)

NoWorkflow == "none"

Labels(cfg) == SeqToSet(cfg.workflows)

CategoryNames(cfg) == SeqToSet(cfg.categories)

\* Workflow.dependents: the workflows registered on w (source.py line 157)
Dependents(cfg, w) == {d \in Labels(cfg) : cfg.prerequisite[d] = w}

\* the checkpoints a first start-up that ran to its end has written: 'id'
\* (line 108) and one per workflow label (line 149)
Checkpoints(cfg) == {"id"} \cup Labels(cfg)

\* no start-up under way
NoStart == [create |-> FALSE, todo |-> <<>>, registered |-> FALSE]

\* two workflows sharing one capped category, the second fed by the first
MainConfig(ms, mc) ==
  [ workflows    |-> <<"w1", "w2">>,
    categories   |-> <<"a", "merge">>,
    category     |-> [w \in {"w1", "w2"} |-> "a"],
    cores        |-> [c \in {"a", "merge"} |-> 1],
    tasks        |-> [c \in {"a", "merge"} |-> IF c = "a" THEN 2 ELSE 0],
    merge_size   |-> [w \in {"w1", "w2"} |-> IF w = "w1" THEN ms ELSE 0],
    prerequisite |-> [w \in {"w1", "w2"} |-> IF w = "w2" THEN "w1" ELSE NoWorkflow],
    tasksize     |-> [w \in {"w1", "w2"} |-> IF w = "w1" THEN 2 ELSE 1],
    total_units  |-> [w \in {"w1", "w2"} |-> NumUnits],
    merge_cleanup |-> [w \in {"w1", "w2"} |-> mc],
    payload      |-> 0 ]

MainConfigs == {MainConfig(0, FALSE), MainConfig(2, TRUE), MainConfig(2, FALSE)}

-----------------------------------------------------------------------------
(* UnitStore (store contract) *)

UnitStates == {"UNASSIGNED", "RUNNING", "DONE", "FAILED", "PAUSED",
               "MERGING", "MERGED", "PUBLISHED"}

NoTask == 0

\* a unit is <<workflow label, lumi>>; its row:
\*   st: state, rc: retry count, task: owning task id, src: source task id
UnitRow(st, rc, task, src) == [st |-> st, rc |-> rc, task |-> task, src |-> src]

\* register_dataset for every workflow at first start: the units of a workflow
\* without prerequisite exist, those of a child arrive by register_files
InitialUnits(cfg) ==
  LET R == {x \in Labels(cfg) : cfg.prerequisite[x] = NoWorkflow}
      U == UNION {{<<w, i>> : i \in 1..cfg.total_units[w]} : w \in R}
  IN [u \in U |-> UnitRow("UNASSIGNED", 0, NoTask, NoTask)]

InitialStore(cfg) == [units |-> InitialUnits(cfg), tasks |-> <<>>]

UnitsOf(s, w) == {u \in DOMAIN s.units : u[1] = w}

UnitsIn(s, w, states) == {u \in UnitsOf(s, w) : s.units[u].st \in states}

TaskIds(s) == 1..Len(s.tasks)

RunningTasks(s) == {t \in TaskIds(s) : s.tasks[t].st = "RUNNING"}

\* units of the parent a successful task's output covers
Coverage(s, t) ==
  IF s.tasks[t].merge
  THEN UNION {s.tasks[c].done : c \in s.tasks[t].comps}
  ELSE s.tasks[t].done

\* work_left: complete
Complete(s, cfg, w) ==
  \/ cfg.prerequisite[w] = NoWorkflow
  \/ Cardinality(UnitsOf(s, w)) = cfg.total_units[cfg.prerequisite[w]]

\* pop_units that also takes units a task in flight owns
PoppableWithRunning(s, w) == UnitsIn(s, w, {"UNASSIGNED", "FAILED", "RUNNING"})

\* pop_units that also takes paused units
PoppableWithPaused(s, w) == UnitsIn(s, w, {"UNASSIGNED", "FAILED", "PAUSED"})

\* the units pop_units may take
Poppable(s, w) == UnitsIn(s, w, {"UNASSIGNED", "FAILED"})

\* work_left: units_left
UnitsLeft(s, w) == Cardinality(Poppable(s, w))

\* the next unit pop_units takes: previously failed units first, then
\* ascending lumi
NextUnit(s, w) ==
  LET F == {u \in Poppable(s, w) : s.units[u].st = "FAILED"}
      A == IF F # {} THEN F ELSE Poppable(s, w)
  IN CHOOSE u \in A : \A v \in A : u[2] <= v[2]

RECURSIVE TakeUnits(_, _, _, _)
\* the first n poppable units of w, marked RUNNING under task id
TakeUnits(s, w, n, id) ==
  IF n = 0 \/ UnitsLeft(s, w) = 0 THEN s
  ELSE LET u == NextUnit(s, w)
           s1 == [s EXCEPT !.units[u].st = "RUNNING", !.units[u].task = id]
       IN TakeUnits(s1, w, n - 1, id)

\* units per task under a taper tn/td in (0, 1]
TaperedSize(size, tn, td) == Max(1, CeilDiv(size * tn, td))

\* size: the bytes of the task's output, in the unit merge_size is given in
ProcessRow(w, us) ==
  [wf |-> w, merge |-> FALSE, st |-> "RUNNING", units |-> us, done |-> {}, comps |-> {},
   size |-> 1]

MergeRow(w, cs) ==
  [wf |-> w, merge |-> TRUE, st |-> "RUNNING", units |-> {}, done |-> {}, comps |-> cs,
   size |-> 1]

RECURSIVE pop_units(_, _, _, _, _, _)
\* pop_units(W, n_tasks, taper): up to n task batches; returns the new store
\* and the ids created, in order
pop_units(s, cfg, w, n, tn, td) ==
  IF n <= 0 \/ UnitsLeft(s, w) = 0 THEN [s |-> s, ids |-> <<>>]
  ELSE LET id == Len(s.tasks) + 1
           row(s1) == ProcessRow(w, {u \in UnitsOf(s1, w) :
                                       s1.units[u].st = "RUNNING" /\ s1.units[u].task = id})
       IN With(TakeUnits(s, w, TaperedSize(cfg.tasksize[w], tn, td), id), LAMBDA s1 :
          With(pop_units([s1 EXCEPT !.tasks = Append(s1.tasks, row(s1))], cfg, w, n - 1, tn, td),
               LAMBDA r : [s |-> r.s, ids |-> <<id>> \o r.ids]))


\* size of a process task's output, in the unit merge_size is given in
OutSize(s, t) == s.tasks[t].size

\* successful process tasks of w whose output is not merged and not part of a
\* merge task in flight
Unmerged(s, w) ==
  {t \in TaskIds(s) :
     /\ s.tasks[t].wf = w /\ ~s.tasks[t].merge /\ s.tasks[t].st = "DONE"
     /\ \A m \in RunningTasks(s) : ~(s.tasks[m].merge /\ t \in s.tasks[m].comps)}

BucketSize(s, b) == SumOver([t \in b |-> OutSize(s, t)], b)

\* a packing that puts every task into one bucket, whatever its size
FirstFitOneBucket(s, ts, cap, buckets) ==
  IF ts = <<>> THEN buckets ELSE Append(buckets, SeqToSet(ts))

RECURSIVE FirstFit(_, _, _, _)
\* first-fit of the tasks ts (a sequence, insertion order) into buckets of
\* cumulative size <= cap; an output larger than cap goes into no bucket
FirstFit(s, ts, cap, buckets) ==
  IF ts = <<>> THEN buckets
  ELSE LET t == Head(ts)
           fits == {i \in 1..Len(buckets) : BucketSize(s, buckets[i]) + OutSize(s, t) <= cap}
       IN IF OutSize(s, t) > cap
          THEN FirstFit(s, Tail(ts), cap, buckets)
          ELSE IF fits = {}
          THEN FirstFit(s, Tail(ts), cap, Append(buckets, {t}))
          ELSE LET i == CHOOSE j \in fits : \A k \in fits : j <= k
               IN FirstFit(s, Tail(ts), cap, [buckets EXCEPT ![i] = buckets[i] \cup {t}])

\* other work remains for w: units still to process, or upstream still feeding
WorkRemains(s, cfg, w) ==
  \/ UnitsIn(s, w, {"UNASSIGNED", "RUNNING", "FAILED"}) # {}
  \/ ~Complete(s, cfg, w)

RECURSIVE MakeMerges(_, _, _)
\* one merge task per bucket; the units of its components go to MERGING
MakeMerges(s, w, buckets) ==
  IF buckets = <<>> THEN [s |-> s, ids |-> <<>>]
  ELSE LET b  == Head(buckets)
           id == Len(s.tasks) + 1
           us == UNION {s.tasks[c].done : c \in b}
           s1 == [s EXCEPT !.tasks = Append(s.tasks, MergeRow(w, b)),
                           !.units = [u \in DOMAIN s.units |->
                                        IF u \in us THEN [s.units[u] EXCEPT !.st = "MERGING"]
                                        ELSE s.units[u]]]
           r  == MakeMerges(s1, w, Tail(buckets))
       IN [s |-> r.s, ids |-> <<id>> \o r.ids]

\* pop_unmerged_tasks(W, merge_size, max_tasks)
pop_unmerged_tasks(s, cfg, w, merge_size, max_tasks) ==
  IF merge_size <= 0 THEN [s |-> s, ids |-> <<>>]
  ELSE LET all  == FirstFit(s, SetToSeq(Unmerged(s, w)), merge_size, <<>>)
           keep == SelectSeq(all, LAMBDA b : Cardinality(b) > 1 \/ ~WorkRemains(s, cfg, w))
           take == SubSeq(keep, 1, Min(Len(keep), max_tasks))
       IN MakeMerges(s, w, take)

\* an update that deletes the unit rows of a failed process task
ApplyUpdateDropping(s, up) ==
  IF ~s.tasks[up.id].merge /\ up.failed
  THEN [s EXCEPT !.tasks[up.id].st = "FAILED",
                 !.units = [u \in DOMAIN s.units \ s.tasks[up.id].units |-> s.units[u]]]
  ELSE s

\* one (task_update, file_update, unit_update) of update_units; up is
\* [id, failed, done]: the task, the handler's verdict, the units processed
ApplyUpdate(s, up) ==
  LET row == s.tasks[up.id]
      mus == UNION {s.tasks[c].done : c \in row.comps}
  IN CASE ~row.merge /\ up.failed ->
            [s EXCEPT !.tasks[up.id].st = "FAILED",
                      !.units = [u \in DOMAIN s.units |->
                         IF u \in row.units
                         THEN UnitRow(IF s.units[u].rc < RetryCap THEN "UNASSIGNED" ELSE "PAUSED",
                                      s.units[u].rc + 1, NoTask, s.units[u].src)
                         ELSE s.units[u]]]
       [] ~row.merge /\ ~up.failed ->
            [s EXCEPT !.tasks[up.id].st = "DONE",
                      !.tasks[up.id].done = up.done,
                      !.units = [u \in DOMAIN s.units |->
                         IF u \in up.done THEN [s.units[u] EXCEPT !.st = "DONE"]
                         ELSE IF u \in row.units
                         THEN [s.units[u] EXCEPT !.st = "FAILED", !.task = NoTask]
                         ELSE s.units[u]]]
       [] row.merge /\ up.failed ->
            [s EXCEPT !.tasks[up.id].st = "FAILED",
                      !.units = [u \in DOMAIN s.units |->
                         IF u \in mus /\ s.units[u].st = "MERGING"
                         THEN [s.units[u] EXCEPT !.st = "DONE"]
                         ELSE s.units[u]]]
       [] row.merge /\ ~up.failed ->
            [s EXCEPT !.tasks = [t \in DOMAIN s.tasks |->
                         IF t = up.id THEN [s.tasks[t] EXCEPT !.st = "DONE"]
                         ELSE IF t \in row.comps /\ s.tasks[t].st = "DONE"
                         THEN [s.tasks[t] EXCEPT !.st = "MERGED"]
                         ELSE s.tasks[t]],
                      !.units = [u \in DOMAIN s.units |->
                         IF u \in mus /\ s.units[u].st = "MERGING"
                         THEN [s.units[u] EXCEPT !.st = "MERGED"]
                         ELSE s.units[u]]]

RECURSIVE update_units(_, _)
\* update_units(updates): the whole batch in one transaction
update_units(s, ups) ==
  IF ups = <<>> THEN s ELSE update_units(ApplyUpdate(s, Head(ups)), Tail(ups))

\* register_files(file_infos, child): a unit of the child for every unit an
\* output file covers; info is [src, lumis]; idempotent per source file
register_files(s, infos, child) ==
  LET new == {<<child, i>> : i \in UNION {f.lumis : f \in infos}} \ DOMAIN s.units
      srcOf(u) == (CHOOSE f \in infos : u[2] \in f.lumis).src
  IN [s EXCEPT !.units = [u \in DOMAIN s.units \cup new |->
                            IF u \in DOMAIN s.units THEN s.units[u]
                            ELSE UnitRow("UNASSIGNED", 0, NoTask, srcOf(u))]]

\* reset_units: the ids in flight
InFlight(s) == RunningTasks(s)

\* reset_units: RUNNING units back to UNASSIGNED, no task left in flight
reset_units(s) ==
  [s EXCEPT !.tasks = [t \in DOMAIN s.tasks |->
                         IF s.tasks[t].st = "RUNNING"
                         THEN [s.tasks[t] EXCEPT !.st = "FAILED"]
                         ELSE s.tasks[t]],
            !.units = [u \in DOMAIN s.units |->
                         IF s.units[u].st = "RUNNING"
                         THEN [s.units[u] EXCEPT !.st = "UNASSIGNED", !.task = NoTask]
                         ELSE s.units[u]]]

\* update_missing(task_ids): tasks whose output vanished are failed and their
\* units are processed again
update_missing(s, missing) ==
  [s EXCEPT !.tasks = [t \in DOMAIN s.tasks |->
                         IF t \in missing THEN [s.tasks[t] EXCEPT !.st = "FAILED", !.done = {}]
                         ELSE s.tasks[t]],
            !.units = [u \in DOMAIN s.units |->
                         IF u \in UNION {s.tasks[t].done : t \in missing}
                         THEN [s.units[u] EXCEPT !.st = "FAILED", !.task = NoTask]
                         ELSE s.units[u]]]

-----------------------------------------------------------------------------
(* Task directories (util contract) and the monitoring sink *)

\* the task directories are <<id, bucket>>; <<id, file>> says that the
\* directory of the task holds the file
ParametersFile == "parameters.json"

ReportFile == "report.json"

\* util.move(workdir, id, bucket): rename the task directory out of running/
Move(d, id, bucket) ==
  IF <<id, "running">> \in d THEN (d \ {<<id, "running">>}) \cup {<<id, bucket>>} ELSE d

\* dash.update_task(id, state) and dash.register_task(id)
Report(m, id, state) ==
  [t \in DOMAIN m \cup {id} |->
     IF t = id THEN (IF id \in DOMAIN m THEN Append(m[id], state) ELSE <<state>>)
     ELSE m[t]]

RECURSIVE ReportAll(_, _, _)
ReportAll(m, ids, state) ==
  IF ids = {} THEN m
  ELSE LET id == CHOOSE x \in ids : TRUE
       IN ReportAll(Report(m, id, state), ids \ {id}, state)

\* the output file of a task on storage
OutputFile(id) == id

-----
(* TaskProvider.obtain (source.py lines 238-441) *)

\* pop_unmerged_tasks(wflow.label, wflow.merge_size, 10), line 263
MergeTasksPerCycle == 10

\* work_left(label): (complete, units_left, tasks_left); tasks_left is the
\* fraction tn / td: units_left / tasksize, or the estimate the store keeps
\* for the workflow when it keeps one
work_left(s, cfg, w) ==
  [complete |-> Complete(s, cfg, w), units_left |-> UnitsLeft(s, w),
   tn |-> IF "tasks_left" \in DOMAIN s THEN s.tasks_left[w][1] ELSE UnitsLeft(s, w),
   td |-> IF "tasks_left" \in DOMAIN s THEN s.tasks_left[w][2] ELSE cfg.tasksize[w]]

\* the workflow is left out when it is complete and has less than a task left
SkipWorkflowComplete(wl) ==
  \/ wl.complete /\ wl.tn < wl.td
  \/ wl.units_left = 0

\* lines 267-271: the workflow takes no part in this cycle's allocation
SkipWorkflow(wl) ==
  \/ ~wl.complete /\ wl.tn < wl.td
  \/ wl.units_left = 0

\* lines 278-279: int(math.ceil(tasks_left)) * wflow.category.cores
WorkflowSize(cfg, w, wl) == CeilDiv(wl.tn, wl.td) * cfg.cores[cfg.category[w]]

RECURSIVE ObtainWorkflows(_, _, _)
\* lines 258-279: the loop over the workflows; acc is
\* [s, merges, sizes, left, inc, comp]
ObtainWorkflows(acc, cfg, ws) ==
  IF ws = <<>> THEN acc
  ELSE LET w   == Head(ws)
           cat == cfg.category[w]
           a2(m, wl) ==
             IF SkipWorkflow(wl) THEN [acc EXCEPT !.s = m.s, !.merges = acc.merges \o m.ids]
             ELSE [acc EXCEPT !.s = m.s, !.merges = acc.merges \o m.ids,
                              !.sizes[cat] = acc.sizes[cat] + WorkflowSize(cfg, w, wl),
                              !.cats = acc.cats \cup {cat},
                              !.left[w] = WorkflowSize(cfg, w, wl),
                              !.inc = IF wl.complete THEN acc.inc ELSE acc.inc \cup {w},
                              !.comp = IF wl.complete THEN acc.comp \cup {w} ELSE acc.comp]
       IN With(pop_unmerged_tasks(acc.s, cfg, w, cfg.merge_size[w], MergeTasksPerCycle), LAMBDA m :
          With(work_left(m.s, cfg, w), LAMBDA wl :
          ObtainWorkflows(a2(m, wl), cfg, Tail(ws))))

\* lines 281-287: the cores to fill
Hunger(cfg, total, queue) ==
  LET need == total + Max(total \div 10, cfg.payload)
              - SumOver([c \in CategoryNames(cfg) |-> cfg.cores[c] * queue[c]], CategoryNames(cfg))
  IN Max(need, 0)

\* lines 296-297: helper(cat); None sorts below every number
HelperKey(cfg, c) ==
  IF cfg.tasks[c] # 0 THEN [none |-> FALSE, v |-> -(cfg.tasks[c] * cfg.cores[c])]
  ELSE [none |-> TRUE, v |-> 0]

KeyLess(a, b) == (a.none /\ ~b.none) \/ (~a.none /\ ~b.none /\ a.v < b.v)

\* line 301: sorted(self.config.categories, key=helper, reverse=True), stable
SortedCategories(cfg) ==
  LET n == Len(cfg.categories)
      key(i) == HelperKey(cfg, cfg.categories[i])
      before(i) == {j \in 1..n : \/ KeyLess(key(i), key(j))
                                 \/ (~KeyLess(key(j), key(i)) /\ j < i)}
  IN [k \in 1..n |-> cfg.categories[CHOOSE i \in 1..n : Cardinality(before(i)) = k - 1]]

\* the category's share of the hunger without the clamp of line 307
CategoryCoresUncapped(cfg, c, hunger, size, count, queue) == CeilDiv(hunger * size, count)

\* the clamp of line 307 without the tasks already queued
CategoryCoresFullCap(cfg, c, hunger, size, count, queue) ==
  LET ccores == CeilDiv(hunger * size, count)
  IN IF cfg.tasks[c] # 0 THEN Min(ccores, cfg.tasks[c] * cfg.cores[c]) ELSE ccores

\* lines 305-307: the cores the category may fill
CategoryCores(cfg, c, hunger, size, count, queue) ==
  LET ccores == CeilDiv(hunger * size, count)
  IN IF cfg.tasks[c] # 0
     THEN Min(ccores, (cfg.tasks[c] - queue[c]) * cfg.cores[c])
     ELSE ccores

\* the tasks to ask for when the cores of a task are left out of the division
NTasksPerCore(ccores, left, ctotal, cores) == Max(1, CeilDiv(ccores * left, ctotal))

\* lines 321 and 334: tasks to ask for
NTasks(ccores, left, ctotal, cores) == Max(1, CeilDiv(ccores * left, ctotal * cores))

\* pop_units asked for full-size tasks whatever is left
TaperNone(left, ntasks, cores) == <<1, 1>>

\* line 337: taper = min(1., float(left) / (ntasks * cat.cores)), as a fraction
Taper(left, ntasks, cores) ==
  IF left >= ntasks * cores THEN <<1, 1>> ELSE <<left, ntasks * cores>>

\* one workflow of the category, the cores of its new tasks not taken off the
\* cores of the category
ServeWorkflowUndeducted(a, cfg, c, w, left, complete) ==
  LET cores  == cfg.cores[c]
      ntasks == NTasks(a.ccores, left, a.ctotal, cores)
      taper  == IF complete THEN Taper(left, ntasks, cores) ELSE <<1, 1>>
      call(r) == IF a.ccores > 0
                 THEN <<[w |-> w, ntasks |-> ntasks, taper |-> taper, complete |-> complete,
                         ccores |-> a.ccores, ctotal |-> a.ctotal, got |-> Len(r.ids)]>>
                 ELSE <<>>
  IN With(IF a.ccores > 0
          THEN pop_units(a.s, cfg, w, ntasks, taper[1], taper[2])
          ELSE [s |-> a.s, ids |-> <<>>],
          LAMBDA r :
            [a EXCEPT !.s = r.s,
                      !.infos = a.infos \o r.ids,
                      !.hunger = a.hunger - Len(r.ids) * cores,
                      !.ctotal = a.ctotal - left,
                      !.calls = a.calls \o call(r)])

\* one workflow of the category, tapered whether it is complete or not
ServeWorkflowTapered(a, cfg, c, w, left, complete) ==
  LET cores  == cfg.cores[c]
      ntasks == NTasks(a.ccores, left, a.ctotal, cores)
      taper  == Taper(left, ntasks, cores)
      call(r) == IF a.ccores > 0
                 THEN <<[w |-> w, ntasks |-> ntasks, taper |-> taper, complete |-> complete,
                         ccores |-> a.ccores, ctotal |-> a.ctotal, got |-> Len(r.ids)]>>
                 ELSE <<>>
  IN With(IF a.ccores > 0
          THEN pop_units(a.s, cfg, w, ntasks, taper[1], taper[2])
          ELSE [s |-> a.s, ids |-> <<>>],
          LAMBDA r :
            [a EXCEPT !.s = r.s,
                      !.infos = a.infos \o r.ids,
                      !.ccores = a.ccores - Len(r.ids) * cores,
                      !.hunger = a.hunger - Len(r.ids) * cores,
                      !.ctotal = a.ctotal - left,
                      !.calls = a.calls \o call(r)])

\* lines 319-329 and 332-345: one workflow of the category; a is
\* [s, infos, hunger, ccores, ctotal, calls]
ServeWorkflow(a, cfg, c, w, left, complete) ==
  LET cores  == cfg.cores[c]
      ntasks == NTasks(a.ccores, left, a.ctotal, cores)
      taper  == IF complete THEN Taper(left, ntasks, cores) ELSE <<1, 1>>
      call(r) == IF a.ccores > 0
                 THEN <<[w |-> w, ntasks |-> ntasks, taper |-> taper, complete |-> complete,
                         ccores |-> a.ccores, ctotal |-> a.ctotal, got |-> Len(r.ids)]>>
                 ELSE <<>>
  IN With(IF a.ccores > 0
          THEN pop_units(a.s, cfg, w, ntasks, taper[1], taper[2])
          ELSE [s |-> a.s, ids |-> <<>>],
          LAMBDA r :
            [a EXCEPT !.s = r.s,
                      !.infos = a.infos \o r.ids,
                      !.ccores = a.ccores - Len(r.ids) * cores,
                      !.hunger = a.hunger - Len(r.ids) * cores,
                      !.ctotal = a.ctotal - left,
                      !.calls = a.calls \o call(r)])

RECURSIVE ServeWorkflows(_, _, _, _, _, _)
\* lines 320-321 and 333-334: with cores to fill the division by
\* float(ctotal) * cat.cores is made, and raises ZeroDivisionError at 0
ServeWorkflows(a, cfg, c, ws, left, complete) ==
  IF ws = <<>> \/ a.zero # "none" THEN a
  ELSE IF a.ccores > 0 /\ a.ctotal * cfg.cores[c] = 0 THEN [a EXCEPT !.zero = "ctotal"]
  ELSE With(ServeWorkflow(a, cfg, c, Head(ws), left[Head(ws)], complete), LAMBDA a1 :
            ServeWorkflows(a1, cfg, c, Tail(ws), left, complete))

\* the enumeration order of a dict of workflows: the order ord induces
DictItems(ord, keys) == SelectSeq(ord, LAMBDA w : w \in keys)

RECURSIVE ServeCategories(_, _, _, _, _, _)
\* lines 300-347: the loop over the sorted categories; w is the result of the
\* workflow loop, a is [s, infos, hunger, count, calls, order]
ServeCategories(a, cfg, cs, w, queue, ord) ==
  IF cs = <<>> \/ a.zero # "none" THEN a
  ELSE LET c == Head(cs)
       IN IF c \notin w.cats \/ c = "merge"
          THEN ServeCategories(a, cfg, Tail(cs), w, queue, ord)
          ELSE IF a.count = 0
          THEN \* line 305: the division by float(count) raises ZeroDivisionError
               [a EXCEPT !.zero = "count"]
          ELSE LET cc  == CategoryCores(cfg, c, a.hunger, w.sizes[c], a.count, queue)
                   b0  == [s |-> a.s, infos |-> a.infos, hunger |-> a.hunger,
                           ccores |-> cc, ctotal |-> w.sizes[c], calls |-> a.calls,
                           zero |-> "none"]
                   inW == {x \in w.inc : cfg.category[x] = c}
                   coW == {x \in w.comp : cfg.category[x] = c}
                   a1(b2) == [a EXCEPT !.s = b2.s, !.infos = b2.infos, !.hunger = b2.hunger,
                                       !.count = a.count - w.sizes[c], !.calls = b2.calls,
                                       !.zero = b2.zero,
                                       !.order = Append(a.order, [cat |-> c, ccores |-> cc, count |-> a.count])]
               IN With(ServeWorkflows(b0, cfg, c, DictItems(ord, inW), w.left, FALSE), LAMBDA b1 :
                  With(ServeWorkflows(b1, cfg, c, DictItems(ord, coW), w.left, TRUE), LAMBDA b2 :
                  ServeCategories(a1(b2), cfg, Tail(cs), w, queue, ord)))

\* line 395: os.path.isfile(report), the report under successful/
ReportPresent(d, t) == <<t, "successful">> \in d /\ <<t, ReportFile>> \in d

\* line 433: the category a task is queued under
DescriptorCategory(cfg, row) == IF row.merge THEN "merge" ELSE cfg.category[row.wf]

\* lines 355-435: one task of taskinfos; o is [s, dirs, handlers, dash, tasks,
\* files]; files holds the input files a merge task's handler is created with
BuildTask(o, cfg, id) ==
  LET row     == o.s.tasks[id]
      missing == {c \in row.comps : ~ReportPresent(o.dirs, c)}
      s1      == IF row.merge /\ missing # {} THEN update_missing(o.s, missing) ELSE o.s
  IN [s        |-> s1,
      dirs     |-> o.dirs \cup {<<id, "running">>, <<id, ParametersFile>>},
      handlers |-> o.handlers \cup {id},
      dash     |-> Report(o.dash, id, "REGISTERED"),
      tasks    |-> Append(o.tasks, <<DescriptorCategory(cfg, row), id>>),
      files    |-> IF row.merge
                   THEN o.files \cup {[id |-> id, infiles |-> {OutputFile(c) : c \in row.comps \ missing}]}
                   ELSE o.files]

RECURSIVE BuildTasks(_, _, _)
BuildTasks(o, cfg, ids) ==
  IF ids = <<>> THEN o
  ELSE With(BuildTask(o, cfg, Head(ids)), LAMBDA o1 : BuildTasks(o1, cfg, Tail(ids)))

\* obtain(total, tasks): the new store, directories, handlers and sink, the
\* descriptors returned and what the call computed on the way
obtain(s, d, h, m, cfg, total, queue, ord) ==
  LET cats   == CategoryNames(cfg)
      hunger == Hunger(cfg, total, queue)
      seen(w, last, zero) ==
        [hunger |-> hunger, total |-> total, queue |-> queue,
         merges |-> SeqToSet(w.merges), created |-> (Len(s.tasks) + 1)..last,
         zero |-> zero]
      serve(w) ==
        ServeCategories([s |-> w.s, infos |-> w.merges, hunger |-> hunger,
                         count |-> SumOver(w.sizes, cats), calls |-> <<>>, order |-> <<>>,
                         zero |-> "none"],
                        cfg, SortedCategories(cfg), w, queue, ord)
      build(a) ==
        BuildTasks([s |-> a.s, dirs |-> d, handlers |-> h, dash |-> m, tasks |-> <<>>,
                    files |-> {}],
                   cfg, a.infos)
  IN With(ObtainWorkflows([s |-> s, merges |-> <<>>, cats |-> {},
                           sizes |-> [c \in cats |-> 0],
                           left |-> [x \in Labels(cfg) |-> 0],
                           inc |-> {}, comp |-> {}],
                          cfg, cfg.workflows),
          LAMBDA w :
     IF hunger = 0
     THEN \* line 292: return []
          [s |-> w.s, dirs |-> d, handlers |-> h, dash |-> m, tasks |-> <<>>,
           files |-> {}, calls |-> <<>>, order |-> <<>>,
           seen |-> seen(w, Len(w.s.tasks), "none")]
     ELSE With(serve(w), LAMBDA a :
          IF a.zero # "none"
          THEN \* ZeroDivisionError leaves obtain: what the store was asked to do
               \* is done, no task is built or returned
               [s |-> a.s, dirs |-> d, handlers |-> h, dash |-> m, tasks |-> <<>>,
                files |-> {}, calls |-> a.calls, order |-> a.order,
                seen |-> seen(w, Len(a.s.tasks), a.zero)]
          ELSE With(build(a), LAMBDA o :
               [s |-> o.s, dirs |-> o.dirs, handlers |-> o.handlers, dash |-> o.dash,
                tasks |-> o.tasks, files |-> o.files, calls |-> a.calls, order |-> a.order,
                seen |-> seen(w, Len(o.s.tasks), "none")])))

-----------------------------------------------------------------------------
(* TaskHandler.process (handler contract) *)

\* what the executor hands back for a task: the work-queue flag, whether the
\* result document parses, its exit code, and whether every unit of the
\* request mask was processed
Results ==
  { [flag |-> 0,  parsable |-> TRUE,  exit |-> 0, all |-> TRUE],
    [flag |-> 0,  parsable |-> TRUE,  exit |-> 0, all |-> FALSE],
    [flag |-> 16, parsable |-> TRUE,  exit |-> 0, all |-> TRUE],
    [flag |-> 0,  parsable |-> FALSE, exit |-> 0, all |-> TRUE],
    [flag |-> 0,  parsable |-> TRUE,  exit |-> 1, all |-> TRUE] }

\* process: failed
Failed(res) == res.flag # 0 \/ ~res.parsable \/ res.exit # 0

\* process: the units of the request mask reported as processed; a partly
\* processed task misses its last unit
Processed(row, res) ==
  IF row.merge \/ Failed(res) THEN {}
  ELSE IF res.all THEN row.units
  ELSE row.units \ {CHOOSE u \in row.units : \A v \in row.units : v[2] <= u[2]}

\* handler.output_info: the lumis the output file holds
OutputLumis(s, row, res) ==
  IF row.merge THEN {u[2] : u \in UNION {s.tasks[c].done : c \in row.comps}}
  ELSE {u[2] : u \in Processed(row, res)}

-----------------------------------------------------------------------------------------------------------------------------------------------------
(* TaskProvider.release (source.py lines 443-497) *)

\* the locals of release: the tasks handed in with their results, those still
\* to go through, update, propagate and cleanup, and the files fs.remove has
\* removed
NoRelease ==
  [batch |-> <<>>, todo |-> <<>>, update |-> <<>>, propagate |-> {}, cleanup |-> {},
   removed |-> {}, error |-> "none", logged |-> FALSE]

\* line 362: the report the executor brings back into the task directory; only
\* the reports of successful tasks are read again (get_report, lines 235-236)
ReturnedOutputs(d, id, res) == IF Failed(res) THEN d ELSE d \cup {<<id, ReportFile>>}

\* a release that moves every task directory to successful/
ReleaseBucketSuccessful(failed) == "successful"

\* lines 457-462: the bucket the task directory is moved to
ReleaseBucket(failed) == IF failed THEN "failed" ELSE "successful"

\* propagation that does not look at merge_size
PropagateToUnmerged(cfg, row, failed) ==
  IF ~failed THEN Dependents(cfg, row.wf) ELSE {}

\* propagation of the output of merge tasks only
PropagateToMerged(cfg, row, failed) ==
  IF ~failed /\ row.merge THEN Dependents(cfg, row.wf) ELSE {}

\* lines 457-470: the dependents the task's output is propagated to
PropagateTo(cfg, row, failed) ==
  IF ~failed /\ (cfg.merge_size[row.wf] <= 0 \/ row.merge)
  THEN Dependents(cfg, row.wf)
  ELSE {}

\* a release that queues the component files of every merge task with
\* merge_cleanup, failed or not
CleanupOfAnyMerge(cfg, row, id, failed) ==
  (IF failed THEN {OutputFile(id)} ELSE {})
    \cup (IF row.merge /\ cfg.merge_cleanup[row.wf] THEN {OutputFile(c) : c \in row.comps} ELSE {})

\* a release that queues the component files of every successful merge task
CleanupOfUnasked(cfg, row, id, failed) ==
  IF failed THEN {OutputFile(id)}
  ELSE IF row.merge THEN {OutputFile(c) : c \in row.comps}
  ELSE {}

\* lines 460 and 472-474: the files the task queues for removal
CleanupOf(cfg, row, id, failed) ==
  IF failed THEN {OutputFile(id)}
  ELSE IF row.merge /\ cfg.merge_cleanup[row.wf] THEN {OutputFile(c) : c \in row.comps}
  ELSE {}

\* a release that records the update of successful tasks only
UpdateOfSuccessOnly(row, id, res) ==
  IF Failed(res) THEN <<>>
  ELSE <<[id |-> id, failed |-> FALSE, done |-> Processed(row, res)]>>

\* line 478: the update the task contributes to the batch
UpdateOf(row, id, res) == <<[id |-> id, failed |-> Failed(res), done |-> Processed(row, res)]>>

\* a release that registers the propagated files without the batch update
ReleaseStoreSkipped(s, updates) == s

\* a release that hands the store the update of its first task only
ReleaseStoreFirstOnly(s, updates) ==
  IF Len(updates) > 0 THEN update_units(s, <<Head(updates)>>) ELSE s

\* line 494: self.__store.update_units(update), if there is any
ReleaseStore(s, updates) == IF Len(updates) > 0 THEN update_units(s, updates) ELSE s

RECURSIVE RegisterAll(_, _, _)
\* lines 496-497: register_files for every label of propagate
RegisterAll(s, prop, labels) ==
  IF labels = {} THEN s
  ELSE LET l == CHOOSE x \in labels : TRUE
           infos == {[src |-> p.src, lumis |-> p.lumis] : p \in {q \in prop : q.child = l}}
       IN RegisterAll(register_files(s, infos, l), prop, labels \ {l})

-----------------------------------------------------------------------------
(* TaskProvider.__init__ on restart (source.py lines 108-174, create false) *)

\* a restart that leaves the directories under running/ alone
RestartDirsKept(d) == d

\* a restart that copies the directories under running/ to failed/
RestartDirsCopied(d) == d \cup {<<x[1], "failed">> : x \in {y \in d : y[2] = "running"}}

\* lines 151-153: every directory under running/ is moved to failed/
RestartDirs(d) ==
  {<<x[1], IF x[2] = "running" THEN "failed" ELSE x[2]>> : x \in d}

\* line 173: the store is reset
RestartStore(s) == reset_units(s)

\* a restart that reports the ids found under failed/
RestartAbortedFromDirs(s) == {t \in TaskIds(s) : <<t, "failed">> \in dirs}

\* lines 173-174: the ids reported ABORTED
RestartAborted(s) == InFlight(s)

-----------------------------------------------------------------------------
(* The controller *)

MaxTotal == 3

NoCall == [op |-> "none"]

\* the queue counts the caller passes: tasks handed out and not yet released
Queue(cfg, s, h) ==
  [c \in CategoryNames(cfg) |-> Cardinality({t \in h : DescriptorCategory(cfg, s.tasks[t]) = c})]

Orders(cfg) ==
  {o \in [1..Len(cfg.workflows) -> Labels(cfg)] : SeqToSet(o) = Labels(cfg)}

Init ==
  /\ config \in MainConfigs
  /\ store = InitialStore(config)
  /\ dirs = {}
  /\ handlers = {}
  /\ dash = <<>>
  /\ pc = "idle"
  /\ rel = NoRelease
  /\ ret = NoCall
  /\ quiet = FALSE
  /\ crashes = 0
  /\ status = Checkpoints(config)
  /\ start = NoStart

Obtain ==
  /\ pc = "idle"
  /\ \E total \in 0..MaxTotal, ord \in Orders(config) :
       \E r \in {obtain(store, dirs, handlers, dash, config, total,
                        Queue(config, store, handlers), ord)} :
          /\ Len(r.s.tasks) <= MaxTasks
          /\ store' = r.s
          /\ dirs' = r.dirs
          /\ handlers' = r.handlers
          /\ dash' = r.dash
          /\ ret' = [op |-> "obtain", tasks |-> r.tasks, files |-> r.files,
                     calls |-> r.calls, order |-> r.order, seen |-> r.seen]
  /\ quiet' = FALSE
  /\ UNCHANGED <<config, status, start, pc, rel, crashes>>

\* release(tasks) is entered with the completed tasks and their results
ReleaseStart ==
  /\ pc = "idle"
  /\ \E batch \in SUBSET handlers :
       /\ batch # {} /\ Cardinality(batch) <= MaxBatch
       /\ \E rs \in [batch -> Results] :
            /\ \A t \in batch :
                 rs[t].all \/ (~store.tasks[t].merge /\ Cardinality(store.tasks[t].units) >= 2)
            /\ \E todo \in {[i \in 1..Cardinality(batch) |->
                                [id |-> SetToSeq(batch)[i], res |-> rs[SetToSeq(batch)[i]]]]} :
                 rel' = [NoRelease EXCEPT !.batch = todo, !.todo = todo]
  /\ pc' = "release"
  /\ ret' = NoCall
  /\ quiet' = FALSE
  /\ UNCHANGED <<config, status, start, store, dirs, handlers, dash, crashes>>

\* the sink is told RETRIEVED for the task and never DONE
ReleaseReportsRetrievedOnly(m, id) == Report(m, id, "RETRIEVED")

\* lines 450 and 478: update_task(task.tag, dash.DONE) when the task is taken
\* up, update_task(task.tag, dash.RETRIEVED) when it has been dealt with
ReleaseReports(m, id) == Report(Report(m, id, "DONE"), id, "RETRIEVED")

\* lines 449-480: one iteration of the loop over the tasks
ReleaseTask ==
  /\ pc = "release" /\ rel.todo # <<>>
  /\ LET id     == Head(rel.todo).id
         res    == Head(rel.todo).res
         row    == store.tasks[id]
         failed == Failed(res)
     IN /\ dash' = ReleaseReports(dash, id)
        /\ dirs' = Move(ReturnedOutputs(dirs, id, res), id, ReleaseBucket(failed))
        /\ handlers' = handlers \ {id}
        /\ rel' = [batch     |-> rel.batch,
                   todo      |-> Tail(rel.todo),
                   update    |-> rel.update \o UpdateOf(row, id, res),
                   propagate |-> rel.propagate \cup
                                   {[child |-> dep, src |-> id, lumis |-> OutputLumis(store, row, res)] :
                                      dep \in PropagateTo(config, row, failed)},
                   cleanup   |-> rel.cleanup \cup CleanupOf(config, row, id, failed),
                   removed   |-> {},
                   error     |-> "none",
                   logged    |-> FALSE]
  /\ UNCHANGED <<config, status, start, store, pc, ret, quiet, crashes>>

\* lines 485-486: fs.remove is called when files are queued; it returns or
\* raises; "IOError" stands for IOError and OSError, which share a handler
RemoveOutcomes(files) ==
  IF files = {} THEN {"none"} ELSE {"none", "IOError", "ValueError"}

\* every failure of the removal is logged
LoggedAlways(error) == error # "none"

\* lines 487-490: `except (IOError, OSError): pass` logs nothing, `except
\* ValueError as e: logger.error(...)` logs
Logged(error) == error = "ValueError"

\* lines 484-490: fs.remove(*cleanup) and its exception handlers
ReleaseCleanup ==
  /\ pc = "release" /\ rel.todo = <<>>
  /\ \E e \in RemoveOutcomes(rel.cleanup) :
       rel' = [rel EXCEPT !.removed = IF e = "none" THEN rel.cleanup ELSE {},
                          !.error = e,
                          !.logged = Logged(e)]
  /\ pc' = "update"
  /\ UNCHANGED <<config, status, start, store, dirs, handlers, dash, ret, quiet, crashes>>

\* lines 492-494: the batch update
ReleaseUpdate ==
  /\ pc = "update"
  /\ store' = ReleaseStore(store, rel.update)
  /\ pc' = "register"
  /\ UNCHANGED <<config, status, start, dirs, handlers, dash, rel, ret, quiet, crashes>>

\* lines 496-497: propagation into the dependents; release returns
ReleaseRegister ==
  /\ pc = "register"
  /\ store' = RegisterAll(store, rel.propagate, {p.child : p \in rel.propagate})
  /\ pc' = "idle"
  /\ rel' = NoRelease
  /\ UNCHANGED <<config, status, start, dirs, handlers, dash, ret, quiet, crashes>>

\* release([]): no task to go through, nothing queued, no update, nothing
\* to propagate
ReleaseNothing ==
  /\ pc = "idle"
  /\ store' = RegisterAll(ReleaseStore(store, NoRelease.update), NoRelease.propagate, {})
  /\ ret' = NoCall
  /\ quiet' = FALSE
  /\ UNCHANGED <<config, status, start, dirs, handlers, dash, pc, rel, crashes>>

\* the controller process stops at any point; what it held in memory is gone
Crash ==
  /\ pc \notin {"down", "stopped"}
  /\ crashes < MaxCrashes \/ quiet
  /\ crashes' = IF quiet THEN crashes ELSE crashes + 1
  /\ pc' = "down"
  /\ handlers' = {}
  /\ rel' = NoRelease
  /\ ret' = NoCall
  /\ start' = NoStart
  /\ UNCHANGED <<config, status, store, dirs, dash, quiet>>

\* start-up with the 'id' checkpoint present
Restart ==
  /\ pc = "down"
  /\ dirs' = RestartDirs(dirs)
  /\ store' = RestartStore(store)
  /\ dash' = ReportAll(dash, RestartAborted(store), "ABORTED")
  /\ ret' = [op |-> "restart", aborted |-> RestartAborted(store), quiet |-> quiet]
  /\ quiet' = TRUE
  /\ pc' = "idle"
  /\ UNCHANGED <<config, status, start, handlers, rel, crashes>>

Next ==
  \/ Obtain
  \/ ReleaseStart
  \/ ReleaseTask
  \/ ReleaseCleanup
  \/ ReleaseUpdate
  \/ ReleaseRegister
  \/ ReleaseNothing
  \/ Crash
  \/ Restart

Spec == Init /\ [][Next]_vars

-----------------------------------------------------------------------------
(* Properties *)

\* the process tasks of category c the store records as in flight
RunningIn(c) ==
  {t \in RunningTasks(store) :
     ~store.tasks[t].merge /\ config.category[store.tasks[t].wf] = c}

\* C1: with the queue counts equal to the tasks in flight, the number of
\* RUNNING non-merge tasks of a category with a task cap K never exceeds K.
C1_CategoryCap ==
  \A c \in CategoryNames(config) :
    config.tasks[c] # 0 => Cardinality(RunningIn(c)) <= config.tasks[c]

\* an obtain that was hungry for more cores than it filled, with work left in
\* a category that is at its cap
C1_Witness ==
  /\ ret.op = "obtain"
  /\ ret.seen.hunger > Len(ret.tasks)
  /\ \E c \in CategoryNames(config) :
       /\ config.tasks[c] # 0
       /\ Cardinality(RunningIn(c)) = config.tasks[c]
       /\ \E w \in Labels(config) : config.category[w] = c /\ UnitsLeft(store, w) > 0

\* the units a task in flight covers
Covers(t) ==
  IF store.tasks[t].merge
  THEN UNION {store.tasks[c].done : c \in store.tasks[t].comps}
  ELSE store.tasks[t].units

\* C2: at-most-one-owner: no unit is covered by two RUNNING tasks at once, so
\* a unit of a RUNNING task is not handed out again while that task is RUNNING.
C2_AtMostOneOwner ==
  \A t1, t2 \in RunningTasks(store) : t1 # t2 => Covers(t1) \cap Covers(t2) = {}

\* two process tasks of one workflow in flight, one of them created after a
\* unit failed and was handed out again
C2_Witness ==
  \E t1, t2 \in RunningTasks(store) :
    /\ t1 # t2 /\ store.tasks[t1].wf = store.tasks[t2].wf
    /\ ~store.tasks[t1].merge /\ ~store.tasks[t2].merge
    /\ \E u \in store.tasks[t2].units : store.units[u].rc > 0

\* C3: every merge task pop_unmerged_tasks creates during an obtain call is
\* among the descriptors obtain returns, with category 'merge', whatever the
\* hunger is.
C3_MergesReturned ==
  ret.op = "obtain" =>
    \A m \in ret.seen.merges : <<"merge", m>> \in SeqToSet(ret.tasks)

\* the process tasks a step creates in the store
NewProcessTasks ==
  {t \in (Len(store.tasks) + 1)..Len(store'.tasks) : ~store'.tasks[t].merge}

\* C4: pop_units hands out only units that are UNASSIGNED or FAILED; a PAUSED
\* (or RUNNING, DONE, MERGING, MERGED, PUBLISHED) unit is never put in a task.
C4_OnlyUnassignedOrFailedPopped ==
  [][\A t \in NewProcessTasks : \A u \in store'.tasks[t].units :
       store.units[u].st \in {"UNASSIGNED", "FAILED"}]_vars

\* an obtain created a process task for a workflow that has a paused unit
C4_Witness ==
  /\ ret.op = "obtain"
  /\ \E t \in ret.seen.created :
       /\ ~store.tasks[t].merge
       /\ \E u \in UnitsOf(store, store.tasks[t].wf) : store.units[u].st = "PAUSED"

\* the tasks of the batch in release that the executor reports as failed
\* process tasks: flagged, unparseable or with a non-zero exit code
FailedProcessInBatch ==
  {e.id : e \in {x \in SeqToSet(rel.batch) :
                   /\ ~store.tasks[x.id].merge
                   /\ (x.res.flag # 0 \/ ~x.res.parsable \/ x.res.exit # 0)}}

\* C5: when a process task is released as failed, the batch update takes
\* every unit it covered out of RUNNING: to UNASSIGNED if its retry count is
\* below the retry cap, to PAUSED otherwise.
C5_FailedUnitsRevert ==
  [][pc = "update" /\ pc' = "register" =>
       \A t \in FailedProcessInBatch : \A u \in store.tasks[t].units :
         store'.units[u].st =
           IF store.units[u].rc < RetryCap THEN "UNASSIGNED" ELSE "PAUSED"]_vars

\* the batch update has been applied for a failed process task, one of whose
\* units is paused
C5_Witness ==
  /\ pc = "register"
  /\ \E t \in FailedProcessInBatch : \E u \in store.tasks[t].units :
       store.units[u].st = "PAUSED"

\* the units a workflow has at first start
InitialTotal(w) == Cardinality(UnitsOf(InitialStore(config), w))

\* C6 as stated: at every quiescent point the units of each workflow, summed
\* over all states, number the workflow's initial total.
C6_ConservationAllWorkflows ==
  pc = "idle" =>
    \A w \in Labels(config) : Cardinality(UnitsOf(store, w)) = InitialTotal(w)

\* C6, amended: the units of a workflow without prerequisite always number its
\* initial total; the units of a workflow with a prerequisite are never more
\* than the parent's total units, none is ever deleted, and only the
\* register_files step of release adds any.
C6_Conservation ==
  /\ [](\A w \in Labels(config) :
          /\ \A u \in UnitsOf(store, w) : store.units[u].st \in UnitStates
          /\ IF config.prerequisite[w] = NoWorkflow
             THEN Cardinality(UnitsOf(store, w)) = InitialTotal(w)
             ELSE Cardinality(UnitsOf(store, w)) <= config.total_units[config.prerequisite[w]])
  /\ [][/\ DOMAIN store.units \subseteq DOMAIN store'.units
        /\ pc # "register" => DOMAIN store'.units = DOMAIN store.units]_vars

\* a quiescent point with units in the child and a unit of the parent back
\* to UNASSIGNED or PAUSED after a failure
C6_Witness ==
  /\ pc = "idle"
  /\ \E w \in Labels(config) :
       /\ config.prerequisite[w] # NoWorkflow
       /\ UnitsOf(store, w) # {}
       /\ \E u \in UnitsOf(store, config.prerequisite[w]) : store.units[u].rc > 0

\* C7: when a restart completes no unit is RUNNING, every task that was in
\* flight has been reported ABORTED to the monitoring sink and no task
\* directory is left under running/.
C7_RestartCleansUp ==
  [][pc = "down" /\ pc' = "idle" =>
       /\ \A u \in DOMAIN store'.units : store'.units[u].st # "RUNNING"
       /\ \A t \in RunningTasks(store) :
            t \in DOMAIN dash' /\ dash'[t][Len(dash'[t])] = "ABORTED"
       /\ \A t \in TaskIds(store') : <<t, "running">> \notin dirs']_vars

\* a restart found a task in flight, with its directory under running/
C7_Witness ==
  /\ ret.op = "restart"
  /\ \E t \in ret.aborted :
       /\ <<t, "failed">> \in dirs
       /\ dash[t] = <<"REGISTERED", "ABORTED">>
       /\ store.tasks[t].units # {}
       /\ \A u \in store.tasks[t].units : store.units[u].st = "UNASSIGNED"

\* C8: recovery idempotence: a restart that follows a restart with no obtain
\* or release in between leaves the store and the task directories as they
\* are, and its reset_units returns no task id.
C8_RestartIdempotent ==
  [][pc = "down" /\ pc' = "idle" /\ quiet =>
       /\ store' = store
       /\ dirs' = dirs
       /\ ret'.aborted = {}]_vars

\* a second restart in a row, the first of which had aborted a task
C8_Witness ==
  /\ ret.op = "restart" /\ ret.quiet
  /\ \E t \in DOMAIN dash : dash[t][Len(dash[t])] = "ABORTED" /\ <<t, "failed">> \in dirs

\* C9: dependency causality: a unit is in a child workflow only when its
\* source task is recorded DONE or MERGED in the store; never while the source
\* task is RUNNING or FAILED.
C9_DependencyCausality ==
  \A u \in DOMAIN store.units :
    store.units[u].src # NoTask => store.tasks[store.units[u].src].st \in {"DONE", "MERGED"}

\* a child workflow holds a unit that came from a task of its parent
C9_Witness ==
  \E u \in DOMAIN store.units :
    /\ store.units[u].src # NoTask
    /\ config.prerequisite[u[1]] = store.tasks[store.units[u].src].wf

\* C10: release propagates a task's output to every dependent workflow if and
\* only if the task succeeded and it is a merge task or its workflow has
\* merge_size <= 0.
C10_PropagationRule ==
  [][pc = "register" /\ pc' = "idle" =>
       \A e \in SeqToSet(rel.batch) : \A d \in Labels(config) :
         LET row == store.tasks[e.id]
             ok  == e.res.flag = 0 /\ e.res.parsable /\ e.res.exit = 0
         IN (\E u \in UnitsOf(store', d) : store'.units[u].src = e.id)
            <=> /\ config.prerequisite[d] = row.wf
                /\ ok
                /\ (row.merge \/ config.merge_size[row.wf] <= 0)]_vars

\* a merge task's output has been registered in the child while a successful
\* process task of the same workflow has none of its own there
C10_Witness ==
  \E u \in DOMAIN store.units :
    /\ store.units[u].src # NoTask
    /\ store.tasks[store.units[u].src].merge
    /\ \E c \in store.tasks[store.units[u].src].comps :
         \A v \in DOMAIN store.units : store.units[v].src # c

\* the files fs.remove has removed on behalf of a task of the batch
RemovedFor(e) ==
  CleanupOf(config, store.tasks[e.id], e.id, Failed(e.res)) \cap rel.removed

\* C11: within a release the batch update is applied before the queued files
\* are removed: whenever a file queued by a task of the batch is gone, the
\* store records the outcome of that task.
C11_UpdateBeforeRemoval ==
  \A e \in SeqToSet(rel.batch) :
    RemovedFor(e) # {} => store.tasks[e.id].st # "RUNNING"

\* the tasks of the batch in release
BatchIds == {e.id : e \in SeqToSet(rel.batch)}

\* the tasks of the batch whose outcome the store records
Applied(s) == {t \in BatchIds : s.tasks[t].st # "RUNNING"}

\* a step of release that changes the store: the one update_units call
BatchUpdateStep ==
  /\ pc = "update" /\ pc' = "register"
  /\ store' = update_units(store, rel.update)
  /\ {up.id : up \in SeqToSet(rel.update)} = BatchIds
  /\ Applied(store) = {} /\ Applied(store') = BatchIds

\* C12: release applies the updates of its batch through one update_units
\* call: the store records the outcome of none or of all tasks of the batch,
\* it changes in a single step from none to all, and release([]) leaves it as
\* it is.
C12_SingleBatchUpdate ==
  /\ [](Applied(store) = {} \/ Applied(store) = BatchIds)
  /\ [][(pc \in {"release", "update"} /\ pc' # "down" /\ store' # store) => BatchUpdateStep]_vars
  /\ [][(pc = "idle" /\ pc' = "idle" /\ ret' = NoCall) => store' = store]_vars

\* the update of a batch of two tasks, one failed and one successful, has
\* been applied
C12_Witness ==
  /\ pc = "register"
  /\ \E e1, e2 \in SeqToSet(rel.batch) :
       /\ e1.id # e2.id
       /\ store.tasks[e1.id].st = "FAILED"
       /\ store.tasks[e2.id].st = "DONE"

Buckets == {"running", "successful", "failed"}

\* the buckets that hold a directory of task t
BucketsOf(d, t) == {b \in Buckets : <<t, b>> \in d}

\* C13: in every reachable state, also after a crash and a restart, the
\* directory of each task id is in at most one of running/, successful/ and
\* failed/.
C13_OneBucket ==
  \A t \in TaskIds(store) : Cardinality(BucketsOf(dirs, t)) <= 1

\* after a restart one task is under failed/, moved there by the restart,
\* another under successful/ and a third under running/
C13_Witness ==
  /\ \E t \in TaskIds(store) :
       BucketsOf(dirs, t) = {"failed"} /\ dash[t] = <<"REGISTERED", "ABORTED">>
  /\ \E t \in TaskIds(store) : BucketsOf(dirs, t) = {"successful"}
  /\ \E t \in TaskIds(store) : BucketsOf(dirs, t) = {"running"}

\* the moves a task directory may make in one step
DirectoryMove(t) ==
  \/ BucketsOf(dirs', t) = BucketsOf(dirs, t)
  \/ BucketsOf(dirs, t) = {} /\ BucketsOf(dirs', t) = {"running"}
  \/ BucketsOf(dirs, t) = {"running"} /\ BucketsOf(dirs', t) \in {{"successful"}, {"failed"}}

\* the bucket release leaves the directory of the task it goes through in
ReleasedTo(e) ==
  BucketsOf(dirs', e.id) =
    IF e.res.flag # 0 \/ ~e.res.parsable \/ e.res.exit # 0 THEN {"failed"} ELSE {"successful"}

\* C14: a task directory goes from running/ to successful/ or to failed/ and
\* nowhere else; release moves it to failed/ exactly when the handler reported
\* a failure and to successful/ otherwise; from successful/ or failed/ it
\* never moves again.
C14_DirectoryStateMachine ==
  /\ [][\A t \in TaskIds(store') : DirectoryMove(t)]_vars
  /\ [][(pc = "release" /\ pc' = "release") => ReleasedTo(Head(rel.todo))]_vars

\* release has moved one task to failed/ and another to successful/
C14_Witness ==
  \E t1, t2 \in DOMAIN dash :
    /\ BucketsOf(dirs, t1) = {"failed"} /\ dash[t1][Len(dash[t1])] = "RETRIEVED"
    /\ BucketsOf(dirs, t2) = {"successful"} /\ dash[t2][Len(dash[t2])] = "RETRIEVED"

\* C15: every task the store records as created during an obtain call has its
\* parameters.json under its task directory when obtain returns.
C15_ParametersWritten ==
  ret.op = "obtain" =>
    \A t \in ret.seen.created : <<t, "running">> \in dirs /\ <<t, ParametersFile>> \in dirs

-----------------------------------------------------------------------------
(* Reports that vanish from disk *)

\* the report of a successful task that still waits to be merged is lost
LoseReport ==
  /\ pc = "idle"
  /\ \E t \in TaskIds(store) :
       /\ t \in Unmerged(store, store.tasks[t].wf)
       /\ config.merge_size[store.tasks[t].wf] > 0
       /\ ReportPresent(dirs, t)
       /\ dirs' = dirs \ {<<t, ReportFile>>}
  /\ UNCHANGED <<config, status, start, store, handlers, dash, pc, rel, ret, quiet, crashes>>

NextLoss ==
  \/ Obtain
  \/ ReleaseStart
  \/ ReleaseTask
  \/ ReleaseCleanup
  \/ ReleaseUpdate
  \/ ReleaseRegister
  \/ LoseReport

SpecLoss == Init /\ [][NextLoss]_vars

\* the units a task owns in the store
OwnedUnits(s, t) == {u \in DOMAIN s.units : s.units[u].task = t}

\* C16: every merge task obtain dispatches has at least one component input,
\* also when reports of components are missing on disk, and once a merge task
\* is recorded DONE the units of its components are MERGED.
C16_MergeCoalescing ==
  /\ ret.op = "obtain" => \A f \in ret.files : f.infiles # {}
  /\ \A m \in TaskIds(store) :
       store.tasks[m].merge /\ store.tasks[m].st = "DONE" =>
         \A c \in store.tasks[m].comps : \A u \in OwnedUnits(store, c) :
           store.units[u].st = "MERGED"

-----------------------------------------------------------------------------
(* Properties of merging *)

\* the merge tasks of the batch in release that the executor reports as failed
FailedMergeInBatch ==
  {e.id : e \in {x \in SeqToSet(rel.batch) :
                   /\ store.tasks[x.id].merge
                   /\ (x.res.flag # 0 \/ ~x.res.parsable \/ x.res.exit # 0)}}

\* what the batch update leaves of a failed merge task m and its components
FailedMergeKept(m) ==
  /\ store'.tasks[m].st = "FAILED"
  /\ \A c \in store.tasks[m].comps :
       /\ store.tasks[c].st = "DONE" /\ store'.tasks[c] = store.tasks[c]
       /\ \A u \in store.tasks[c].done :
            store'.units[u].st = "DONE" /\ store'.units[u].rc = store.units[u].rc
       /\ OutputFile(c) \notin rel.cleanup
       /\ c \in Unmerged(store', store.tasks[m].wf)

\* C17: when a merge task is released as failed only the merge task is marked
\* FAILED: its components stay DONE, their units are DONE again and not
\* retried, their files are not queued for removal, and the components are
\* candidates of the next pop_unmerged_tasks.
C17_FailedMergeKeepsComponents ==
  [][(pc = "update" /\ pc' = "register") =>
       \A m \in FailedMergeInBatch : FailedMergeKept(m)]_vars

\* a merge task in flight over the components of a merge task that failed
C17_Witness ==
  \E m1, m2 \in TaskIds(store) :
    /\ store.tasks[m1].merge /\ store.tasks[m1].st = "FAILED"
    /\ <<m1, "failed">> \in dirs /\ dash[m1][Len(dash[m1])] = "RETRIEVED"
    /\ store.tasks[m2].merge /\ store.tasks[m2].st = "RUNNING"
    /\ store.tasks[m2].comps = store.tasks[m1].comps

\* what the step of release that goes through task e adds to cleanup
CleanupQueued(e) ==
  LET row    == store.tasks[e.id]
      failed == e.res.flag # 0 \/ ~e.res.parsable \/ e.res.exit # 0
      inputs == {OutputFile(c) : c \in row.comps}
      new    == rel'.cleanup \ rel.cleanup
  IN /\ rel.cleanup \subseteq rel'.cleanup
     /\ (inputs \cap new # {}) <=> (row.merge /\ ~failed /\ config.merge_cleanup[row.wf])
     /\ (row.merge /\ ~failed /\ config.merge_cleanup[row.wf]) => new = inputs
     /\ failed => new = {OutputFile(e.id)}
     /\ (~row.merge /\ ~failed) => new = {}

\* C18: release queues the input files of the component tasks for removal if
\* and only if the task is a merge task that succeeded and its workflow has
\* merge_cleanup set; a failed task queues only its own output, a successful
\* process task nothing.
C18_CleanupRule ==
  [][(pc = "release" /\ pc' = "release") => CleanupQueued(Head(rel.todo))]_vars

\* release has queued the input files of a successful merge task of a
\* workflow with merge_cleanup
C18_Witness ==
  /\ pc = "update"
  /\ \E e \in SeqToSet(rel.batch) :
       /\ store.tasks[e.id].merge /\ ~Failed(e.res)
       /\ rel.cleanup = {OutputFile(c) : c \in store.tasks[e.id].comps}
       /\ rel.cleanup # {}

-----------------------------------------------------------------------------
(* pop_unmerged_tasks on its own: stores of finished process tasks *)

\* process tasks in a store the packing starts from
NumMergeTasks == 4
\* largest output of a process task, in the unit of merge_size
MaxSize == 3
\* largest max_tasks passed
MaxMergeTasks == 2
\* merge tasks a store holds before pop_unmerged_tasks stops being called
MaxMerges == 3

\* the scenario of 20 outputs of 50MB and a merge_size of 500MB, in units of
\* 50MB
ExampleTasks == 20

ExampleMergeSize == 10

\* one workflow that merges, with a task per unit
MergeConfig(ms, n) ==
  [MainConfig(ms, FALSE) EXCEPT !.total_units = [w \in {"w1", "w2"} |-> n],
                                !.tasksize = [w \in {"w1", "w2"} |-> 1]]

\* the store after one process task per unit has been released: task t has
\* processed unit t with an output of sizes[t], or has failed
MergeStore(sizes, sts) ==
  LET ok(t) == sts[t] = "DONE"
  IN [units |-> [u \in {<<"w1", i>> : i \in 1..Len(sizes)} |->
                   IF ok(u[2]) THEN UnitRow("DONE", 0, u[2], NoTask)
                   ELSE UnitRow("UNASSIGNED", 1, NoTask, NoTask)],
      tasks |-> [t \in 1..Len(sizes) |->
                   [ProcessRow("w1", {<<"w1", t>>}) EXCEPT
                      !.st = sts[t],
                      !.done = IF ok(t) THEN {<<"w1", t>>} ELSE {},
                      !.size = sizes[t]]]]

InitMerge ==
  /\ \/ /\ config \in {MergeConfig(ms, NumMergeTasks) : ms \in 1..MaxSize}
        /\ \E sizes \in [1..NumMergeTasks -> 1..MaxSize],
              sts \in [1..NumMergeTasks -> {"DONE", "FAILED"}] :
             store = MergeStore(sizes, sts)
     \/ /\ config = MergeConfig(ExampleMergeSize, ExampleTasks)
        /\ store = MergeStore([t \in 1..ExampleTasks |-> 1], [t \in 1..ExampleTasks |-> "DONE"])
  /\ dirs = {}
  /\ handlers = {}
  /\ dash = <<>>
  /\ pc = "store"
  /\ rel = NoRelease
  /\ ret = NoCall
  /\ quiet = FALSE
  /\ crashes = 0
  /\ status = Checkpoints(config)
  /\ start = NoStart

\* pop_unmerged_tasks(W, merge_size, max_tasks)
PopUnmerged ==
  /\ pc = "store"
  /\ \E mt \in 0..MaxMergeTasks :
       \E r \in {pop_unmerged_tasks(store, config, "w1", config.merge_size["w1"], mt)} :
         /\ Cardinality({t \in TaskIds(r.s) : r.s.tasks[t].merge}) <= MaxMerges
         /\ store' = r.s
         /\ ret' = [op |-> "pop_unmerged_tasks", ids |-> r.ids, max |-> mt]
  /\ UNCHANGED <<config, status, start, dirs, handlers, dash, pc, rel, quiet, crashes>>

\* update_units with the outcome of a merge task in flight
MergeUpdated ==
  /\ pc = "store"
  /\ \E m \in RunningTasks(store) : \E failed \in BOOLEAN :
       /\ store.tasks[m].merge
       /\ store' = update_units(store, <<[id |-> m, failed |-> failed, done |-> {}]>>)
  /\ ret' = NoCall
  /\ UNCHANGED <<config, status, start, dirs, handlers, dash, pc, rel, quiet, crashes>>

NextMerge ==
  \/ PopUnmerged
  \/ MergeUpdated

SpecMerge == InitMerge /\ [][NextMerge]_vars

\* the merge tasks a step creates
NewMerges == {t \in (Len(store.tasks) + 1)..Len(store'.tasks) : store'.tasks[t].merge}

\* a component of a new merge task: a successful process task of the workflow
\* that is neither merged nor part of a merge task in flight
FreshComponent(m, c) ==
  /\ ~store.tasks[c].merge
  /\ store.tasks[c].st = "DONE"
  /\ store.tasks[c].wf = store'.tasks[m].wf
  /\ \A o \in TaskIds(store) :
       (store.tasks[o].merge /\ store.tasks[o].st \in {"RUNNING", "DONE"}) =>
         c \notin store.tasks[o].comps

\* what a call of pop_unmerged_tasks returns
PackedWell ==
  /\ Cardinality(NewMerges) <= ret'.max
  /\ SeqToSet(ret'.ids) = NewMerges
  /\ \A m \in NewMerges :
       /\ store'.tasks[m].comps # {}
       /\ \A c \in store'.tasks[m].comps : FreshComponent(m, c)
       /\ SumOver([c \in store'.tasks[m].comps |-> store.tasks[c].size], store'.tasks[m].comps)
            <= config.merge_size[store'.tasks[m].wf]
  /\ \A m1, m2 \in NewMerges :
       m1 # m2 => store'.tasks[m1].comps \cap store'.tasks[m2].comps = {}

\* C19: pop_unmerged_tasks returns at most max_tasks merge tasks, a task is a
\* component of at most one of them, only successful process tasks that are
\* not yet merged are components, and the outputs of a bucket add up to at
\* most merge_size.
C19_PopUnmergedTasks ==
  [][(ret' # ret /\ ret'.op = "pop_unmerged_tasks") => PackedWell]_vars

\* 20 successful tasks of 50MB and a merge_size of 500MB give two merge tasks
\* of 10 components each
C19_Witness ==
  /\ ret.op = "pop_unmerged_tasks"
  /\ Len(store.tasks) = ExampleTasks + 2
  /\ Len(ret.ids) = 2
  /\ \A m \in SeqToSet(ret.ids) : Cardinality(store.tasks[m].comps) = 10

-----------------------------------------------------------------------------
(* TaskProvider.done (source.py lines 503-505) and workflows that do not merge *)

\* unfinished_units(): the units that are not in a final state
unfinished_units(s) ==
  Cardinality({u \in DOMAIN s.units :
                 s.units[u].st \notin {"DONE", "MERGED", "PUBLISHED", "PAUSED"}})

\* merged(): no workflow that merges has output left to merge
merged(s, cfg) ==
  \A w \in Labels(cfg) :
    \/ cfg.merge_size[w] <= 0
    \/ /\ Unmerged(s, w) = {}
       /\ \A m \in RunningTasks(s) : ~(s.tasks[m].merge /\ s.tasks[m].wf = w)

\* done() looking at the units alone
DoneUnitsOnly(s, cfg) == unfinished_units(s) = 0

\* lines 504-505
done(s, cfg) == merged(s, cfg) /\ unfinished_units(s) = 0

\* both workflows with tasks of ts units
DirectConfig(ms, ts) ==
  [MainConfig(ms, FALSE) EXCEPT !.tasksize = [w \in {"w1", "w2"} |-> ts]]

\* no workflow merges, or only the parent does
DirectConfigs == {DirectConfig(0, 3), DirectConfig(2, 3)}

InitDirect ==
  /\ config \in DirectConfigs
  /\ store = InitialStore(config)
  /\ dirs = {}
  /\ handlers = {}
  /\ dash = <<>>
  /\ pc = "idle"
  /\ rel = NoRelease
  /\ ret = NoCall
  /\ quiet = FALSE
  /\ crashes = 0
  /\ status = Checkpoints(config)
  /\ start = NoStart

SpecDirect == InitDirect /\ [][Next]_vars

\* the workflows with merge_size = 0
Unmerging == {w \in Labels(config) : config.merge_size[w] = 0}

\* every unit of every workflow has been processed
AllProcessed ==
  \A w \in Labels(config) :
    /\ Complete(store, config, w)
    /\ UnitsOf(store, w) # {}
    /\ \A u \in UnitsOf(store, w) : store.units[u].st \in {"DONE", "MERGED"}

\* the successful process tasks of the batch whose workflow has merge_size = 0
\* reach every dependent
DirectlyPropagated ==
  \A e \in SeqToSet(rel.batch) :
    LET row == store.tasks[e.id]
    IN (~row.merge /\ row.wf \in Unmerging
        /\ e.res.flag = 0 /\ e.res.parsable /\ e.res.exit = 0) =>
         \A d \in Labels(config) :
           config.prerequisite[d] = row.wf =>
             \E u \in UnitsOf(store', d) : store'.units[u].src = e.id

\* C20: a workflow with merge_size = 0 never gets a merge task from an obtain
\* call, its successful process tasks propagate their output to the
\* dependents themselves, and once every unit is processed (and the merging
\* workflows are merged) done() is true.
C20_NoMergeWorkflow ==
  /\ [](\A t \in TaskIds(store) : store.tasks[t].merge => store.tasks[t].wf \notin Unmerging)
  /\ [][(pc = "register" /\ pc' = "idle") => DirectlyPropagated]_vars
  /\ []((pc = "idle" /\ AllProcessed
          /\ \A w \in Labels(config) \ Unmerging :
               \A u \in UnitsOf(store, w) : store.units[u].st = "MERGED")
        => done(store, config))

\* neither workflow merges, the child has processed the units the parent's
\* tasks handed it, and done() is true
C20_Witness ==
  /\ pc = "idle"
  /\ Unmerging = Labels(config)
  /\ AllProcessed
  /\ done(store, config)
  /\ \E u \in DOMAIN store.units :
       store.units[u].src # NoTask /\ ~store.tasks[store.units[u].src].merge

-----------------------------------------------------------------------------
(* The allocation of obtain (source.py lines 281-347) over several categories *)

\* the totals obtain is called with
AllocTotals == {0, 1, 5, 10}

\* the number of tasks of a category the caller may report as queued
QueueCounts == {0, 1, 3}

\* the totals of the call that precedes the one observed
StartTotals == {0, 1}

\* the payload floors configured
Payloads == {0, 2}

\* scenario S1: one workflow of 100 units at 10 units per task, asked for 10 cores
S1Units == 100

S1TaskSize == 10

S1Total == 10

\* a configuration without dependencies and merging
AllocConfig(ws, cs, catOf, cores, tasks, tasksize, units, payload) ==
  [ workflows    |-> ws,
    categories   |-> cs,
    category     |-> catOf,
    cores        |-> cores,
    tasks        |-> tasks,
    merge_size   |-> [w \in SeqToSet(ws) |-> 0],
    prerequisite |-> [w \in SeqToSet(ws) |-> NoWorkflow],
    tasksize     |-> tasksize,
    total_units  |-> units,
    merge_cleanup |-> [w \in SeqToSet(ws) |-> FALSE],
    payload      |-> payload ]

\* scenario S1: a single complete workflow in an uncapped category of one core
S1Config ==
  AllocConfig(<<"w1">>, <<"a", "merge">>, [w \in {"w1"} |-> "a"],
              [c \in {"a", "merge"} |-> 1], [c \in {"a", "merge"} |-> 0],
              [w \in {"w1"} |-> S1TaskSize], [w \in {"w1"} |-> S1Units], 0)

\* category A capped at 2 tasks of 4 cores, category B uncapped with 1 core,
\* each with a workflow of three tasks
CapConfig(p) ==
  AllocConfig(<<"wA", "wB">>, <<"A", "B", "merge">>,
              [w \in {"wA", "wB"} |-> IF w = "wA" THEN "A" ELSE "B"],
              [c \in {"A", "B", "merge"} |-> IF c = "A" THEN 4 ELSE 1],
              [c \in {"A", "B", "merge"} |-> IF c = "A" THEN 2 ELSE 0],
              [w \in {"wA", "wB"} |-> 2], [w \in {"wA", "wB"} |-> 6], p)

\* the task limits and cores of three categories
Shapes ==
  { [A |-> <<0, 1>>, B |-> <<3, 1>>, C |-> <<2, 4>>],
    [A |-> <<0, 4>>, B |-> <<3, 1>>, C |-> <<2, 1>>],
    [A |-> <<2, 4>>, B |-> <<0, 1>>, C |-> <<2, 4>>] }

\* three categories of the given shape; A holds two workflows
ShapedConfig(sh, p) ==
  LET W == {"wA", "wA2", "wB", "wC"}
      K == {"A", "B", "C", "merge"}
  IN AllocConfig(<<"wA", "wA2", "wB", "wC">>, <<"A", "B", "C", "merge">>,
                 [w \in W |-> CASE w = "wB" -> "B" [] w = "wC" -> "C" [] OTHER -> "A"],
                 [c \in K |-> IF c = "merge" THEN 1 ELSE sh[c][2]],
                 [c \in K |-> IF c = "merge" THEN 0 ELSE sh[c][1]],
                 [w \in W |-> IF w = "wA2" THEN 1 ELSE 2],
                 [w \in W |-> IF w = "wA2" THEN 3 ELSE 4], p)

AllocConfigs ==
  {S1Config} \cup {CapConfig(p) : p \in Payloads}
             \cup {ShapedConfig(sh, p) : sh \in Shapes, p \in Payloads}

\* two of the orders a dict of workflows may enumerate in
AllocOrders(cfg) ==
  LET n == Len(cfg.workflows)
  IN {cfg.workflows, [i \in 1..n |-> cfg.workflows[n + 1 - i]]}

\* the states obtain is applied in: a fresh project, or one a first obtain with
\* an empty queue has handed tasks out of
InitAlloc ==
  /\ config \in AllocConfigs
  /\ \E total \in StartTotals :
       \E r \in {obtain(InitialStore(config), {}, {}, <<>>, config, total,
                        [c \in CategoryNames(config) |-> 0], config.workflows)} :
          /\ store = r.s
          /\ dirs = r.dirs
          /\ handlers = r.handlers
          /\ dash = r.dash
  /\ pc = "idle"
  /\ rel = NoRelease
  /\ ret = NoCall
  /\ quiet = FALSE
  /\ crashes = 0
  /\ status = Checkpoints(config)
  /\ start = NoStart

\* obtain(total, tasks) with the queue counts the caller passes
ObtainAlloc ==
  /\ pc = "idle"
  /\ ret = NoCall
  /\ \E total \in AllocTotals, queue \in [CategoryNames(config) -> QueueCounts],
        ord \in AllocOrders(config) :
       \E r \in {obtain(store, dirs, handlers, dash, config, total, queue, ord)} :
          /\ store' = r.s
          /\ dirs' = r.dirs
          /\ handlers' = r.handlers
          /\ dash' = r.dash
          /\ ret' = [op |-> "obtain", tasks |-> r.tasks, files |-> r.files,
                     calls |-> r.calls, order |-> r.order, seen |-> r.seen]
  /\ quiet' = FALSE
  /\ UNCHANGED <<config, status, start, pc, rel, crashes>>

NextAlloc == ObtainAlloc

SpecAlloc == InitAlloc /\ [][NextAlloc]_vars

-----------------------------------------------------------------------------
(* Properties of the allocation *)

\* the process tasks the last obtain created
CreatedProcess == {t \in ret.seen.created : ~store.tasks[t].merge}

\* the cores of the process tasks the last obtain created, within cs
CreatedCores(cs) ==
  LET T == {t \in CreatedProcess : config.category[store.tasks[t].wf] \in cs}
  IN SumOver([t \in T |-> config.cores[config.category[store.tasks[t].wf]]], T)

\* the categories the last obtain went through, in order
ProcessedOrder == [k \in 1..Len(ret.order) |-> ret.order[k].cat]

\* C21: every obtain(total, q) creates process tasks whose cores, summed, exceed
\* the hunger H by no more than one task of each category it processed
C21_HungerBound ==
  ret.op = "obtain" =>
    CreatedCores(CategoryNames(config))
      <= ret.seen.hunger
         + SumOver([c \in SeqToSet(ProcessedOrder) |-> config.cores[c]], SeqToSet(ProcessedOrder))

\* an obtain over two categories that fills more cores than the hunger
C21_Witness ==
  /\ ret.op = "obtain"
  /\ Len(ret.order) >= 2
  /\ ret.seen.hunger > 0
  /\ CreatedCores(CategoryNames(config)) > ret.seen.hunger

\* the cores of the tasks the caller reports as queued
QueuedCores(queue) ==
  SumOver([c \in CategoryNames(config) |-> config.cores[c] * queue[c]], CategoryNames(config))

\* C22: the hunger is max(0, total + max(ceil(0.1 * total), payload)
\* - sum over the categories of cores(c) * in_queue[c])
C22_HungerCeiling ==
  ret.op = "obtain" =>
    ret.seen.hunger
      = Max(0, ret.seen.total + Max(CeilDiv(ret.seen.total, 10), config.payload)
               - QueuedCores(ret.seen.queue))

\* the ids of the descriptors the last obtain returned
ReturnedIds == {ret.tasks[i][2] : i \in 1..Len(ret.tasks)}

\* C23: obtain with total = 0 creates no process task and returns the merge
\* tasks that are ready, an empty list when there are none
C23_ZeroTotal ==
  (ret.op = "obtain" /\ ret.seen.total = 0) =>
    /\ CreatedProcess = {}
    /\ ret.calls = <<>>
    /\ ReturnedIds = ret.seen.merges

\* scenario S1: obtain(10, {}) on the fresh project of S1Config
InS1 ==
  /\ ret.op = "obtain"
  /\ config = S1Config
  /\ ret.seen.total = S1Total
  /\ \A c \in CategoryNames(config) : ret.seen.queue[c] = 0
  /\ ret.seen.created = 1..Len(store.tasks)

\* C24 as stated: in scenario S1 obtain(10, {}) asks for exactly 10 tasks with
\* taper 1 and creates 10 tasks of 10 units each
C24_ScenarioS1 ==
  InS1 =>
    /\ Len(ret.calls) = 1
    /\ ret.calls[1].ntasks = 10
    /\ ret.calls[1].taper = <<1, 1>>
    /\ Cardinality(CreatedProcess) = 10
    /\ \A t \in CreatedProcess : Cardinality(store.tasks[t].units) = 10

\* C24: in scenario S1 obtain(10, {}) finds a hunger of 11 cores and asks the
\* workflow for 11 tasks with taper 10/11
C24_ScenarioS1Request ==
  InS1 =>
    /\ ret.seen.hunger = 11
    /\ Len(ret.calls) = 1
    /\ ret.calls[1].w = "w1" /\ ret.calls[1].complete
    /\ ret.calls[1].ntasks = 11
    /\ ret.calls[1].taper = <<10, 11>>

C24_Witness == InS1 /\ CreatedProcess # {}

-----------------------------------------------------------------------------
(* Running to completion: obtain with total > 0, every task successful *)

\* both workflows with tasks of one unit
LiveConfig(ms) ==
  [MainConfig(ms, FALSE) EXCEPT !.tasksize = [w \in {"w1", "w2"} |-> 1]]

\* the parent merges or does not
LiveConfigs == {LiveConfig(0), LiveConfig(2)}

\* the result of a task that completed successfully
Success == [flag |-> 0, parsable |-> TRUE, exit |-> 0, all |-> TRUE]

InitLive ==
  /\ config \in LiveConfigs
  /\ store = InitialStore(config)
  /\ dirs = {}
  /\ handlers = {}
  /\ dash = <<>>
  /\ pc = "idle"
  /\ rel = NoRelease
  /\ ret = NoCall
  /\ quiet = FALSE
  /\ crashes = 0
  /\ status = Checkpoints(config)
  /\ start = NoStart

\* obtain(total, tasks) with total > 0 and the queue counts of the tasks out
ObtainLive ==
  /\ pc = "idle"
  /\ \E total \in 1..MaxTotal, ord \in Orders(config) :
       \E r \in {obtain(store, dirs, handlers, dash, config, total,
                        Queue(config, store, handlers), ord)} :
          /\ store' = r.s
          /\ dirs' = r.dirs
          /\ handlers' = r.handlers
          /\ dash' = r.dash
          /\ ret' = [op |-> "obtain", tasks |-> r.tasks, files |-> r.files,
                     calls |-> r.calls, order |-> r.order, seen |-> r.seen]
  /\ quiet' = FALSE
  /\ UNCHANGED <<config, status, start, pc, rel, crashes>>

\* release(tasks) is entered with tasks that all completed successfully
ReleaseStartLive ==
  /\ pc = "idle"
  /\ \E batch \in SUBSET handlers :
       /\ batch # {} /\ Cardinality(batch) <= MaxBatch
       /\ \E todo \in {[i \in 1..Cardinality(batch) |->
                           [id |-> SetToSeq(batch)[i], res |-> Success]]} :
            rel' = [NoRelease EXCEPT !.batch = todo, !.todo = todo]
  /\ pc' = "release"
  /\ ret' = NoCall
  /\ quiet' = FALSE
  /\ UNCHANGED <<config, status, start, store, dirs, handlers, dash, crashes>>

NextLive ==
  \/ ObtainLive
  \/ ReleaseStartLive
  \/ ReleaseTask
  \/ ReleaseCleanup
  \/ ReleaseUpdate
  \/ ReleaseRegister

\* obtain is called again and again, and every task handed out completes and is
\* released; the first conjunct is weak fairness of ObtainLive, which is
\* enabled exactly when the controller is idle
LiveFairness ==
  /\ ([]<>(pc # "idle")) \/ ([]<><<ObtainLive>>_vars)
  /\ WF_vars(ReleaseStartLive)
  /\ WF_vars(ReleaseTask)
  /\ WF_vars(ReleaseCleanup)
  /\ WF_vars(ReleaseUpdate)
  /\ WF_vars(ReleaseRegister)

SpecLive == InitLive /\ [][NextLive]_vars /\ LiveFairness

\* C25: when obtain is called repeatedly with total > 0 and every task it
\* returns completes successfully and is released, done() eventually holds and
\* no unit is left unfinished
C25_EventuallyDone == <>(done(store, config) /\ unfinished_units(store) = 0)

-----------------------------------------------------------------------------
(* done and terminate (source.py lines 499-505) *)

\* a state a unit stays in unless it is merged or published
TerminalStates == {"DONE", "MERGED", "PUBLISHED", "PAUSED"}

\* no merge task is in flight and pop_unmerged_tasks would create none
NoMergeOutstanding ==
  /\ \A t \in RunningTasks(store) : ~store.tasks[t].merge
  /\ \A w \in Labels(config) :
       config.merge_size[w] > 0 =>
         pop_unmerged_tasks(store, config, w, config.merge_size[w], MergeTasksPerCycle).ids = <<>>

\* C26: done() is true exactly when merged() holds and unfinished_units() is
\* 0, and whenever it is true every unit is in a terminal state and no merge
\* task is outstanding, neither in flight nor still to be created
C26_DoneMeansFinished ==
  /\ done(store, config) <=> (merged(store, config) /\ unfinished_units(store) = 0)
  /\ done(store, config) =>
       /\ \A u \in DOMAIN store.units : store.units[u].st \in TerminalStates
       /\ NoMergeOutstanding

\* the project is done after a merge task has run
C26_Witness ==
  /\ done(store, config)
  /\ \E t \in TaskIds(store) : store.tasks[t].merge /\ store.tasks[t].st # "RUNNING"
  /\ \E u \in DOMAIN store.units : u[1] = "w2"

\* terminate() going by the handlers the provider holds
TerminateHandlers(s, h) == h

\* line 500: self.__store.running_tasks()
TerminateTargets(s, h) == RunningTasks(s)

\* lines 499-501: terminate(); the controller exits after it
Terminate ==
  /\ pc = "idle"
  /\ dash' = ReportAll(dash, TerminateTargets(store, handlers), "CANCELLED")
  /\ ret' = [op |-> "terminate", cancelled |-> TerminateTargets(store, handlers)]
  /\ pc' = "stopped"
  /\ UNCHANGED <<config, status, start, store, dirs, handlers, rel, quiet, crashes>>

NextStop ==
  \/ Obtain
  \/ ReleaseStart
  \/ ReleaseTask
  \/ ReleaseCleanup
  \/ ReleaseUpdate
  \/ ReleaseRegister
  \/ ReleaseNothing
  \/ Crash
  \/ Restart
  \/ Terminate

SpecStop == Init /\ [][NextStop]_vars

\* what terminate() leaves behind
TerminateStep ==
  /\ \A t \in RunningTasks(store) :
       /\ t \in DOMAIN dash'
       /\ dash'[t] = (IF t \in DOMAIN dash THEN dash[t] ELSE <<>>) \o <<"CANCELLED">>
  /\ DOMAIN dash' = DOMAIN dash \cup RunningTasks(store)
  /\ \A t \in DOMAIN dash \ RunningTasks(store) : dash'[t] = dash[t]
  /\ store' = store
  /\ handlers' = handlers
  /\ dirs' = dirs

\* C27: terminate() reports CANCELLED for every task the store lists as
\* running and changes nothing else: unit states, task rows, the handler map
\* and the directories are as before
C27_TerminateFrame == [][(ret'.op = "terminate") => TerminateStep]_vars

\* terminate() has cancelled tasks, one of them without a handler
C27_Witness ==
  /\ ret.op = "terminate"
  /\ Cardinality(ret.cancelled) >= 2
  /\ ret.cancelled \ handlers # {}

\* the process tasks the last obtain created in category c
CreatedIn(c) == {t \in CreatedProcess : config.category[store.tasks[t].wf] = c}

\* the hunger left when obtain reaches the k-th category it processes
HungerAt(k) == ret.seen.hunger - CreatedCores({ret.order[j].cat : j \in 1..(k - 1)})

\* the tasks category c may still take under its cap
CapRoom(c) == Max(0, config.tasks[c] - ret.seen.queue[c])

\* C28: the hunger a capped category cannot absorb is offered to the later
\* categories: a capped category gets no more new tasks than its cap leaves
\* room for, and the last category processed is offered all the hunger that is
\* left (A with cap 2 and 4 cores, B uncapped with 1 core, obtain(10, {A: 1,
\* B: 3}): at most 1 new task for A, the rest of the hunger offered to B)
C28_CapOverflow ==
  (ret.op = "obtain" /\ Len(ret.order) >= 1) =>
    LET k    == Len(ret.order)
        last == ret.order[k].cat
    IN /\ \A j \in 1..k :
            config.tasks[ret.order[j].cat] # 0 =>
              Cardinality(CreatedIn(ret.order[j].cat)) <= CapRoom(ret.order[j].cat)
       /\ ret.order[k].ccores
            = IF config.tasks[last] # 0
              THEN Min(HungerAt(k), (config.tasks[last] - ret.seen.queue[last]) * config.cores[last])
              ELSE HungerAt(k)

\* obtain(10, {A: 1, B: 3}) with A capped at 2: one new task for A, then B
C28_Witness ==
  /\ ret.op = "obtain"
  /\ config = CapConfig(0)
  /\ ret.seen.total = 10
  /\ ret.seen.queue = [c \in CategoryNames(config) |->
                         CASE c = "A" -> 1 [] c = "B" -> 3 [] OTHER -> 0]
  /\ ProcessedOrder = <<"A", "B">>
  /\ Cardinality(CreatedIn("A")) = 1
  /\ ret.order[2].ccores = ret.seen.hunger - 4

\* C29: obtain processes the capped categories before all uncapped ones and,
\* among the capped ones, the category with the smallest task limit first
C29_SmallestLimitFirst ==
  ret.op = "obtain" =>
    \A i, j \in 1..Len(ret.order) :
      i < j =>
        LET ti == config.tasks[ret.order[i].cat]
            tj == config.tasks[ret.order[j].cat]
        IN /\ ~(ti = 0 /\ tj # 0)
           /\ (ti # 0 /\ tj # 0) => ti <= tj

-----------------------------------------------------------------------------
(* The workflows within a category *)

\* the workflows of category c that are incomplete and take part in the
\* allocation of an obtain entered in store s
IncompleteIn(s, c) ==
  {w \in Labels(config) : /\ config.category[w] = c
                          /\ ~Complete(s, config, w)
                          /\ ~SkipWorkflow(work_left(s, config, w))}

\* the calls of pop_units an obtain made, in order: incomplete workflows before
\* complete ones and never tapered, a complete workflow asked on the cores the
\* calls before it left of the category's share
IncompleteFirst(s, calls, order) ==
  LET n      == Len(calls)
      cat(i) == config.category[calls[i].w]
      share(c) == order[CHOOSE k \in 1..Len(order) : order[k].cat = c].ccores
      before(j) == {i \in 1..(j - 1) : cat(i) = cat(j)}
      taken(j) == SumOver([i \in before(j) |-> calls[i].got * config.cores[cat(j)]], before(j))
  IN /\ \A i, j \in 1..n :
          (i < j /\ cat(i) = cat(j)) => ~(calls[i].complete /\ ~calls[j].complete)
     /\ \A i \in 1..n : ~calls[i].complete => calls[i].taper = <<1, 1>>
     /\ \A j \in 1..n :
          calls[j].complete =>
            /\ IncompleteIn(s, cat(j)) \subseteq {calls[i].w : i \in before(j)}
            /\ calls[j].ccores = share(cat(j)) - taken(j)
            /\ calls[j].ccores > 0

\* C30: within a category pop_units is called for every incomplete workflow
\* before any complete one, with taper 1 for the incomplete ones, so that a
\* complete workflow receives only the cores the incomplete ones left over
C30_IncompleteFirst ==
  [][(ret'.op = "obtain") => IncompleteFirst(store, ret'.calls, ret'.order)]_vars

\* an obtain that served an incomplete workflow and then a complete one
C30_Witness ==
  /\ ret.op = "obtain"
  /\ Len(ret.calls) = 2
  /\ ~ret.calls[1].complete /\ ret.calls[1].got >= 1
  /\ ret.calls[2].complete /\ ret.calls[2].got >= 1
  /\ ret.calls[2].ccores < ret.calls[1].ccores

-----------------------------------------------------------------------------
(* The order of the workflows within a category *)

\* the number of process tasks per workflow among the tasks ids of store s
TasksPerWorkflow(s, ids) ==
  [w \in Labels(config) |->
     Cardinality({t \in ids : s.tasks[t].wf = w /\ ~s.tasks[t].merge})]

\* what obtain creates per workflow when the dict of workflows enumerates as ord
CreatedUnder(total, queue, ord) ==
  With(obtain(store, dirs, handlers, dash, config, total, queue, ord),
       LAMBDA r : TasksPerWorkflow(r.s, r.seen.created))

\* C31: obtain is deterministic: for the same store, total and queue it creates
\* the same number of tasks per workflow whatever order the mapping of the
\* workflows of a category enumerates in
C31_Deterministic ==
  [][(ret'.op = "obtain") =>
       \A ord \in AllocOrders(config) :
         CreatedUnder(ret'.seen.total, ret'.seen.queue, ord)
           = TasksPerWorkflow(store', ret'.seen.created)]_vars

-----------------------------------------------------------------------------
(* The request for tasks per workflow: tasks of two units, a fed workflow *)

ShareUnits == 4

\* the parent and the workflow it feeds both form tasks of two units; the
\* category is not capped and its tasks take cores cores
ShareConfig(cores) ==
  [MainConfig(0, FALSE) EXCEPT
     !.tasksize = [w \in {"w1", "w2"} |-> 2],
     !.total_units = [w \in {"w1", "w2"} |-> ShareUnits],
     !.tasks = [c \in {"a", "merge"} |-> 0],
     !.cores = [c \in {"a", "merge"} |-> IF c = "a" THEN cores ELSE 1]]

ShareConfigs == {ShareConfig(1), ShareConfig(2)}

InitShare ==
  /\ config \in ShareConfigs
  /\ store = InitialStore(config)
  /\ dirs = {}
  /\ handlers = {}
  /\ dash = <<>>
  /\ pc = "idle"
  /\ rel = NoRelease
  /\ ret = NoCall
  /\ quiet = FALSE
  /\ crashes = 0
  /\ status = Checkpoints(config)
  /\ start = NoStart

SpecShare == InitShare /\ [][NextLive]_vars

\* the workflows of category c that lines 266-279 enter into the allocation
Participating(s, cfg, c) ==
  {w \in Labels(cfg) : cfg.category[w] = c /\ ~SkipWorkflow(work_left(s, cfg, w))}

\* the workflows of the category of call i that earlier calls of the cycle served
ServedBefore(cfg, calls, i) ==
  {calls[j].w : j \in {k \in 1..(i - 1) :
                         cfg.category[calls[k].w] = cfg.category[calls[i].w]}}

\* the task-cores a workflow has left: whole tasks, rounded up, times the cores
LeftCores(s, cfg, w) ==
  CeilDiv(UnitsLeft(s, w), cfg.tasksize[w]) * cfg.cores[cfg.category[w]]

\* fraction t equals min(1, n / d)
IsMinOne(t, n, d) ==
  IF n >= d THEN t[1] = t[2] ELSE t[1] * d = t[2] * n

\* call i of a cycle that began in store s asks for the tasks and the taper
\* that left(w) per workflow gives
RequestFrom(s, cfg, calls, i, left(_)) ==
  LET k      == calls[i]
      c      == cfg.category[k.w]
      rest   == Participating(s, cfg, c) \ ServedBefore(cfg, calls, i)
      ctotal == SumOver([w \in rest |-> left(w)], rest)
  IN /\ k.complete = Complete(s, cfg, k.w)
     /\ k.ntasks = Max(1, CeilDiv(k.ccores * left(k.w), ctotal * cfg.cores[c]))
     /\ IF k.complete
        THEN IsMinOne(k.taper, left(k.w), k.ntasks * cfg.cores[c])
        ELSE k.taper[1] = k.taper[2]

\* C32 as stated: for each workflow served, ntasks = max(1, ceil(ccores *
\* units_left / (category_total_units * cores))), and taper = min(1, units_left
\* / (ntasks * cores)) if the workflow is complete, 1 otherwise
C32_RequestUnits ==
  [][(ret'.op = "obtain") =>
       \A i \in 1..Len(ret'.calls) :
         RequestFrom(store, config, ret'.calls, i, LAMBDA w : UnitsLeft(store, w))]_vars

\* C32: for each workflow served, ntasks = max(1, ceil(ccores * left / (ctotal *
\* cores))) with left = ceil(tasks_left) * cores of the workflow and ctotal the
\* sum of left over the workflows of the category not yet served, and taper =
\* min(1, left / (ntasks * cores)) if the workflow is complete, 1 otherwise
C32_Request ==
  [][(ret'.op = "obtain") =>
       \A i \in 1..Len(ret'.calls) :
         RequestFrom(store, config, ret'.calls, i,
                     LAMBDA w : LeftCores(store, config, w))]_vars

\* a cycle served an incomplete workflow, and a complete one with a taper
\* below 1 where units_left / (ntasks * cores) is 1 or more
C32_Witness ==
  /\ ret.op = "obtain"
  /\ \E i \in 1..Len(ret.calls) : ~ret.calls[i].complete /\ ret.calls[i].got > 0
  /\ \E i \in 1..Len(ret.calls) :
       /\ ret.calls[i].complete
       /\ ret.calls[i].taper[1] < ret.calls[i].taper[2]
       /\ ret.calls[i].got > 0

\* the workflows obtain called pop_units for
Popped(calls) == {calls[i].w : i \in 1..Len(calls)}

\* work_left reports less than one task left for workflow w
LessThanATask(s, cfg, w) == UnitsLeft(s, w) < cfg.tasksize[w]

\* C33 as stated: a workflow with tasks_left < 1 is skipped unless it is
\* incomplete, so a complete workflow with tasks_left < 1 gets no pop_units
C33_SkipComplete ==
  [][(ret'.op = "obtain") =>
       \A w \in Labels(config) :
         (LessThanATask(store, config, w) /\ Complete(store, config, w))
           => w \notin Popped(ret'.calls)]_vars

\* C33: a workflow is skipped when it is incomplete with tasks_left < 1 or has
\* no units left; a complete workflow with units left, however few, takes part
\* and is served when it is the only one that takes part and there is hunger
C33_SkipIncomplete ==
  [][(ret'.op = "obtain") =>
       \A w \in Labels(config) :
         /\ ((~Complete(store, config, w) /\ LessThanATask(store, config, w))
               \/ UnitsLeft(store, w) = 0)
              => w \notin Popped(ret'.calls)
         /\ (/\ Complete(store, config, w) /\ UnitsLeft(store, w) > 0
             /\ \A x \in Labels(config) \ {w} :
                  \/ UnitsLeft(store, x) = 0
                  \/ ~Complete(store, config, x) /\ LessThanATask(store, config, x)
             /\ ret'.seen.hunger > 0)
              => w \in Popped(ret'.calls)]_vars

\* a cycle served a complete workflow that had one unit left, less than a task
C33_Witness ==
  /\ ret.op = "obtain"
  /\ \E i \in 1..Len(ret.calls) :
       /\ ret.calls[i].complete /\ ret.calls[i].got = 1
       /\ UnitsLeft(store, ret.calls[i].w) = 0
       /\ \E t \in ret.seen.created :
            /\ store.tasks[t].wf = ret.calls[i].w
            /\ Cardinality(store.tasks[t].units) = 1
            /\ config.tasksize[ret.calls[i].w] > 1

-----------------------------------------------------------------------------
(* What the monitoring sink is told about a task *)

\* how often the sink was told state x for a task with history q
Told(q, x) == Cardinality({i \in 1..Len(q) : q[i] = x})

\* the history of a task is in order: registered first and once, DONE at most
\* once and after the registration, RETRIEVED at most once and right after DONE
InOrder(q) ==
  /\ Told(q, "REGISTERED") <= 1 /\ Told(q, "DONE") <= 1 /\ Told(q, "RETRIEVED") <= 1
  /\ \A i \in 1..Len(q) :
       /\ q[i] = "REGISTERED" => i = 1
       /\ q[i] = "DONE" => i = 2 /\ q[1] = "REGISTERED"
       /\ q[i] = "RETRIEVED" => i = 3 /\ q[2] = "DONE"

-----------------------------------------------------------------------------
(* A failing removal of the queued files *)

\* the removal of the queued files of the release under way failed
RemovalFailed == pc \in {"update", "register"} /\ rel.error # "none"

\* the units of the propagated files are registered in their child workflows
Registered(s, propagate) ==
  \A p \in propagate : \A i \in p.lumis : <<p.child, i>> \in DOMAIN s.units

-----------------------------------------------------------------------------
(* Handlers and tasks in flight *)

\* C36: whenever the controller is idle and has not crashed, the handler map
\* holds exactly the ids of the tasks the store records as in flight
C36_HandlersMatchInFlight ==
  (pc = "idle" /\ crashes = 0) => handlers = RunningTasks(store)

-----------------------------------------------------------------------------
(* The directory of a task and its record in the store *)

\* the store records the task as successful
RecordedSuccessful(s, t) == s.tasks[t].st = "DONE"

\* C38: whenever the controller is idle, also after a crash inside release and
\* a restart, a task whose directory is under successful/ is recorded as
\* successful in the store and its units are DONE, MERGING, MERGED or
\* PUBLISHED, and a task recorded as successful has its directory under
\* successful/
C38_SuccessfulAgrees ==
  pc = "idle" =>
    \A t \in TaskIds(store) :
      /\ <<t, "successful">> \in dirs =>
           /\ RecordedSuccessful(store, t)
           /\ \A u \in store.tasks[t].units :
                store.units[u].st \in {"DONE", "MERGING", "MERGED", "PUBLISHED"}
      /\ RecordedSuccessful(store, t) => <<t, "successful">> \in dirs

-----------------------------------------------------------------------------
(* Running to completion with one crash *)

\* the process dies once
CrashLive == ~quiet /\ Crash

NextCrashLive ==
  \/ ObtainLive
  \/ ReleaseStartLive
  \/ ReleaseTask
  \/ ReleaseCleanup
  \/ ReleaseUpdate
  \/ ReleaseRegister
  \/ CrashLive
  \/ Restart

\* the controller is started again after a crash, and then runs as before
SpecCrashLive ==
  InitLive /\ [][NextCrashLive]_vars /\ LiveFairness /\ WF_vars(Restart)

\* the lumis the output of a successful task holds
OutputOf(s, t) ==
  IF s.tasks[t].merge
  THEN {u[2] : u \in UNION {s.tasks[c].done : c \in s.tasks[t].comps}}
  ELSE {u[2] : u \in s.tasks[t].done}

\* the successful tasks whose output is to be propagated (a merge task, or a
\* process task of a workflow that does not merge) and is not registered in
\* every dependent workflow
Unpropagated(s, cfg) ==
  {t \in TaskIds(s) :
     /\ s.tasks[t].st = "DONE"
     /\ s.tasks[t].merge \/ cfg.merge_size[s.tasks[t].wf] <= 0
     /\ \E dep \in Dependents(cfg, s.tasks[t].wf) :
          \E i \in OutputOf(s, t) : <<dep, i>> \notin DOMAIN s.units}

\* C39: every task the store records as successful and whose output is to be
\* propagated eventually has its output registered in each dependent workflow,
\* also when the controller crashes between update_units and register_files
\* and is started again: the set of such tasks still waiting always empties
C39_EventuallyPropagated ==
  (Unpropagated(store, config) # {}) ~> (Unpropagated(store, config) = {})

-----------------------------------------------------------------------------
(* TaskProvider.__init__ step by step (source.py lines 88-174) *)

\* the store before anything is registered; datasets counts the
\* register_dataset calls per label, dependencies holds the registered edges
EmptyStore(cfg) ==
  [units |-> [u \in {} |-> UnitRow("UNASSIGNED", 0, NoTask, NoTask)],
   tasks |-> <<>>,
   datasets |-> [w \in Labels(cfg) |-> 0],
   dependencies |-> {}]

\* register_dataset(wflow, dataset_info, runtime), line 148: the units of a
\* workflow without prerequisite are inserted
register_dataset(s, cfg, w) ==
  LET new == IF cfg.prerequisite[w] = NoWorkflow
             THEN {<<w, i>> : i \in 1..cfg.total_units[w]} \ DOMAIN s.units
             ELSE {}
  IN [s EXCEPT !.datasets[w] = @ + 1,
               !.units = [u \in DOMAIN s.units \cup new |->
                            IF u \in DOMAIN s.units THEN s.units[u]
                            ELSE UnitRow("UNASSIGNED", 0, NoTask, NoTask)]]

\* register_dependency(label, prerequisite, total_units), line 159
register_dependency(s, child, parent) ==
  [s EXCEPT !.dependencies = @ \cup {<<child, parent>>}]

\* the statements of __init__ from line 141 on: the loop over the workflows
\* (141-153), the loop over their prerequisites (155-159), lines 167-174
StartSteps(cfg) ==
  [i \in 1..Len(cfg.workflows) |-> <<"workflow", cfg.workflows[i]>>]
    \o [i \in 1..Len(cfg.workflows) |-> <<"dependency", cfg.workflows[i]>>]
    \o <<<<"finish", NoWorkflow>>>>

\* lines 151-153: the directories of the workflow under running/ go to failed/
RestartDirsOf(d, s, w) ==
  {<<x[1], IF x[2] = "running" /\ s.tasks[x[1]].wf = w THEN "failed" ELSE x[2]>> :
     x \in d}

\* lines 103-112: create is decided by the 'id' checkpoint, which is written
\* when it is missing
StartUp ==
  /\ pc = "down"
  /\ start' = [create |-> "id" \notin status, todo |-> StartSteps(config),
               registered |-> FALSE]
  /\ status' = status \cup {"id"}
  /\ pc' = "starting"
  /\ UNCHANGED <<config, store, dirs, handlers, dash, rel, ret, quiet, crashes>>

\* lines 145-148 and 151-153: the next workflow of the loop; with create and
\* no checkpoint of its label its dataset is registered, otherwise its
\* directories under running/ are moved
StartDataset ==
  /\ pc = "starting" /\ start.todo # <<>> /\ ~start.registered
  /\ Head(start.todo)[1] = "workflow"
  /\ LET w == Head(start.todo)[2]
     IN IF start.create /\ w \notin status
        THEN /\ store' = register_dataset(store, config, w)
             /\ start' = [start EXCEPT !.registered = TRUE]
             /\ dirs' = dirs
        ELSE /\ dirs' = RestartDirsOf(dirs, store, w)
             /\ start' = [start EXCEPT !.todo = Tail(@)]
             /\ store' = store
  /\ UNCHANGED <<config, status, handlers, dash, pc, rel, ret, quiet, crashes>>

\* line 149: the checkpoint of the workflow whose dataset was registered
StartCheckpoint ==
  /\ pc = "starting" /\ start.registered
  /\ status' = status \cup {Head(start.todo)[2]}
  /\ start' = [start EXCEPT !.todo = Tail(@), !.registered = FALSE]
  /\ UNCHANGED <<config, store, dirs, handlers, dash, pc, rel, ret, quiet, crashes>>

\* lines 155-159: the next workflow of the second loop; its prerequisite is
\* registered in the store when create is set
StartDependency ==
  /\ pc = "starting" /\ start.todo # <<>>
  /\ Head(start.todo)[1] = "dependency"
  /\ LET w == Head(start.todo)[2]
     IN store' = IF config.prerequisite[w] # NoWorkflow /\ start.create
                 THEN register_dependency(store, w, config.prerequisite[w])
                 ELSE store
  /\ start' = [start EXCEPT !.todo = Tail(@)]
  /\ UNCHANGED <<config, status, dirs, handlers, dash, pc, rel, ret, quiet, crashes>>

\* lines 167-174: with create the run is registered with the sink, otherwise
\* the store is reset and the tasks that were in flight are reported ABORTED
StartFinish ==
  /\ pc = "starting" /\ start.todo # <<>>
  /\ Head(start.todo)[1] = "finish"
  /\ IF start.create
     THEN store' = store /\ dash' = dash
     ELSE /\ store' = reset_units(store)
          /\ dash' = ReportAll(dash, RestartAborted(store), "ABORTED")
  /\ ret' = [op |-> "start", create |-> start.create]
  /\ start' = NoStart
  /\ pc' = "idle"
  /\ UNCHANGED <<config, status, dirs, handlers, rel, quiet, crashes>>

\* nothing has been started yet: no checkpoint, an empty store
InitStart ==
  /\ config \in MainConfigs
  /\ store = EmptyStore(config)
  /\ dirs = {}
  /\ handlers = {}
  /\ dash = <<>>
  /\ pc = "down"
  /\ rel = NoRelease
  /\ ret = NoCall
  /\ quiet = FALSE
  /\ crashes = 0
  /\ status = {}
  /\ start = NoStart

NextStart ==
  \/ StartUp
  \/ StartDataset
  \/ StartCheckpoint
  \/ StartDependency
  \/ StartFinish
  \/ Obtain
  \/ Crash

SpecStart == InitStart /\ [][NextStart]_vars

\* the prerequisite edges of the configuration
Edges(cfg) ==
  {<<w, cfg.prerequisite[w]>> : w \in {x \in Labels(cfg) : cfg.prerequisite[x] # NoWorkflow}}

\* C37: when obtain is called, after whatever start-ups there were, also a
\* first one that a crash cut short after the 'id' checkpoint was written,
\* register_dataset has been applied once for every configured workflow and
\* every prerequisite edge is registered
C37_AllRegistered ==
  ret.op = "obtain" =>
    /\ \A w \in Labels(config) : store.datasets[w] = 1
    /\ store.dependencies = Edges(config)

-----------------------------------------------------------------------------
(* The divisors of the allocation loop, over the answers of work_left *)

\* the tasks_left a store may estimate for a workflow with units left, as
\* fractions: none, half a task, two tasks
Estimates == {<<0, 1>>, <<1, 2>>, <<2, 1>>}

DivConfigs == {CapConfig(0)} \cup {ShapedConfig(sh, 0) : sh \in Shapes}

\* a fresh project whose store estimates tasks_left per workflow
InitDiv ==
  /\ config \in DivConfigs
  /\ \E est \in [Labels(config) -> Estimates] :
       store = [units |-> InitialUnits(config), tasks |-> <<>>, tasks_left |-> est]
  /\ dirs = {}
  /\ handlers = {}
  /\ dash = <<>>
  /\ pc = "idle"
  /\ rel = NoRelease
  /\ ret = NoCall
  /\ quiet = FALSE
  /\ crashes = 0
  /\ status = Checkpoints(config)
  /\ start = NoStart

SpecDiv == InitDiv /\ [][NextAlloc]_vars

\* C40: whatever work_left answers for the workflows (complete or not, units
\* left, tasks_left of 0 or more), obtain never divides by zero: count is
\* positive when the cores of a category are computed and ctotal is positive
\* when the tasks of a workflow are computed
C40_NoDivisionByZero ==
  ret.op = "obtain" =>
    /\ ret.seen.zero = "none"
    /\ \A i \in 1..Len(ret.order) : ret.order[i].count > 0
    /\ \A i \in 1..Len(ret.calls) : ret.calls[i].ctotal > 0

====
